---------------------------- MODULE Spec2Model ----------------------------
(***************************************************************************)
(* 2D-POLIM analysis: the multi-process work distribution of Movie.run_mp  *)
(* and mp_worker (util2dpolim/movie.py), and the direct, single-process    *)
(* call chain of Movie.chew_AM; the frame indexing (find_portraits,         *)
(* find_lines, retrieve_angles, startstop) under IndexSpec; the per-spot   *)
(* loops of the contrast functions under ContrastSpec.                     *)
(*                                                                         *)
(* Spot indices are 0-based as in the source; sequences are 1-based.       *)
(* Field values are abstract integers: the numerical routines (cosine      *)
(* fitter, optimiser) are external, so a computed value is a tag that      *)
(* records which spot and which inputs it was computed from.               *)
(***************************************************************************)
EXTENDS Integers, Sequences, FiniteSets, TLC

\* ------------------------------------------------------------- bounds
MaxProcs == 2
MaxSpots == 3
MaxFaults == 1

\* ---------------------------------------------------------- constants
\* value of a spot attribute that has not been assigned (hasattr is False)
Unset == 0
\* a contrast-image pixel that holds NaN
NaNPx == -1
\* a field value left on the spots by an earlier analysis run
Stale == Unset + 1

\* ------------------------------------------------------------- fields
FitsFields == {"linefitparams", "residual", "verticalfitparams"}

ModsFields == {"M_ex", "M_em", "phase_ex", "phase_em", "LS", "anisotropy", "anisotropy_n"}

\* attributes the modulation stage sets on a spot but mp_worker never publishes
ModsLocalFields == {"sam"}

ETrulerFields == {"ET_ruler"}

ETmodelFields == {"ETmodel_md_fu", "ETmodel_th_fu", "ETmodel_gr", "ETmodel_et", "ETmodel_resi"}

Fields == FitsFields \cup ModsFields \cup ModsLocalFields \cup ETrulerFields \cup ETmodelFields

allprops == ModsFields \cup ETrulerFields \cup ETmodelFields

\* properties whose image find_modulation_depths_and_phases_selective writes
ModsImageProps == ModsFields

Stages == {"fits", "mods", "ETruler", "ETmodel"}

StageFields(st) ==
    CASE st = "fits"    -> FitsFields
      [] st = "mods"    -> ModsFields
      [] st = "ETruler" -> ETrulerFields
      [] st = "ETmodel" -> ETmodelFields

\* the keys mp_worker puts into a record besides 'spot'
RecordFields(fl) == UNION {StageFields(st) : st \in {s \in Stages : fl[s]}}

\* distinct offsets, so that a value tells which field it was computed for
Code(f) ==
    CASE f = "M_ex" -> 11 [] f = "M_em" -> 12 [] f = "phase_ex" -> 13
      [] f = "phase_em" -> 14 [] f = "LS" -> 15
      [] f = "anisotropy" -> 16 [] f = "anisotropy_n" -> 17
      [] f = "ETmodel_md_fu" -> 31 [] f = "ETmodel_th_fu" -> 32
      [] f = "ETmodel_gr" -> 33 [] f = "ETmodel_et" -> 34
      [] f = "ETmodel_resi" -> 35
      [] OTHER -> 0

B2N(b) == IF b THEN 1 ELSE 0

\* ---------------------------------------------------- pure functions
\* numpy.array_split( np.arange(M), N ): the first M mod N sections hold
\* M div N + 1 entries, the others M div N; section i (0-based) starts at
\* the sum of the sizes before it.
\* mutant: the remainder M mod N is not distributed
SectionSize_NoRemainder(M, N, i) == M \div N

SectionSize(M, N, i) == (M \div N) + (IF i < M % N THEN 1 ELSE 0)

RECURSIVE DivPoint(_, _, _)
DivPoint(M, N, i) == IF i = 0 THEN 0 ELSE DivPoint(M, N, i - 1) + SectionSize(M, N, i - 1)

array_split(M, N) ==
    [i \in 1..N |-> [k \in 1..SectionSize(M, N, i - 1) |-> DivPoint(M, N, i - 1) + k - 1]]

\* np.concatenate( myspots ) turned into a list
RECURSIVE concatenate(_)
concatenate(ss) == IF ss = <<>> THEN <<>> ELSE Head(ss) \o concatenate(Tail(ss))

Range(s) == {s[k] : k \in 1..Len(s)}

\* list.index(x): position of the first occurrence (the caller checks membership)
index(s, x) == CHOOSE k \in 1..Len(s) : s[k] = x /\ \A j \in 1..(k - 1) : s[j] # x

\* list.pop(i)
pop(s, i) == [k \in 1..(Len(s) - 1) |-> IF k < i THEN s[k] ELSE s[k + 1]]

\* mutant: the chain is checked from mods on only
FlagsOK_NoFits(fl) ==
    /\ B2N(fl["mods"]) >= B2N(fl["ETruler"])
    /\ B2N(fl["ETruler"]) >= B2N(fl["ETmodel"])

\* assert fits >= mods >= ETruler >= ETmodel
FlagsOK(fl) ==
    /\ B2N(fl["fits"]) >= B2N(fl["mods"])
    /\ B2N(fl["mods"]) >= B2N(fl["ETruler"])
    /\ B2N(fl["ETruler"]) >= B2N(fl["ETmodel"])

\* --- the stages, as functions on one movie copy [spots, images] --------
\* (store_property_in_image writes a spot's value to the spot's pixels;
\* every spot owns the pixel of its own index)
\* the value the cosine fitter returns for the lines of spot si
LineFit(si) == 100 * (si + 1)

\* fit_all_portraits_spot_parallel_selective on the spots of block bl:
\* stage A writes linefitparams, residual is the sum over its residual
\* column, stage B fits the evaluated line models of the same spot.
FitSpot(s, si) ==
    [s EXCEPT !["linefitparams"] = LineFit(si),
              !["residual"] = LineFit(si) + 1,
              !["verticalfitparams"] = LineFit(si) + 2]

fit_all_portraits(mv, bl) ==
    [mv EXCEPT !.spots = [si \in DOMAIN mv.spots |->
                            IF si \in Range(bl) THEN FitSpot(mv.spots[si], si)
                            ELSE mv.spots[si]]]

\* find_modulation_depths_and_phases_selective: sam is recovered from the
\* spot's own vertical fits, the projections of sam are fitted, the
\* anisotropies are read off the spot's own line fits.
ModsSpot(s) ==
    LET sam == s["verticalfitparams"] + 3 IN
    [f \in Fields |->
        IF f = "sam" THEN sam
        ELSE IF f \in {"anisotropy", "anisotropy_n"} THEN s["linefitparams"] + Code(f)
        ELSE IF f \in ModsFields THEN sam + Code(f)
        ELSE s[f]]

find_modulation_depths(mv, bl) ==
    LET sp == [si \in DOMAIN mv.spots |->
                 IF si \in Range(bl) THEN ModsSpot(mv.spots[si]) ELSE mv.spots[si]]
    IN [spots |-> sp,
        images |-> [p \in allprops |-> [si \in DOMAIN mv.spots |->
                      IF si \in Range(bl) /\ p \in ModsImageProps THEN sp[si][p]
                      ELSE mv.images[p][si]]]]

\* Spot.values_for_ETruler: the ruler is computed from the spot's M_ex
values_for_ETruler(s) == [s EXCEPT !["ET_ruler"] = s["M_ex"] + 20]

ETruler_stage(mv, bl) ==
    [mv EXCEPT !.spots = [si \in DOMAIN mv.spots |->
                            IF si \in Range(bl) THEN values_for_ETruler(mv.spots[si])
                            ELSE mv.spots[si]]]

\* ETmodel_selective: the funnel model is fitted to the spot's sam
ETmodelSpot(s) ==
    [f \in Fields |-> IF f \in ETmodelFields THEN s["sam"] + Code(f) ELSE s[f]]

ETmodel_selective(mv, bl) ==
    LET sp == [si \in DOMAIN mv.spots |->
                 IF si \in Range(bl) THEN ETmodelSpot(mv.spots[si]) ELSE mv.spots[si]]
    IN [spots |-> sp,
        images |-> [p \in allprops |-> [si \in DOMAIN mv.spots |->
                      IF si \in Range(bl) /\ p \in ETmodelFields THEN sp[si][p]
                      ELSE mv.images[p][si]]]]

\* update_images: every property a valid spot has is written to its image
update_images(sp, img) ==
    [p \in allprops |-> [si \in DOMAIN sp |->
        IF sp[si][p] # Unset THEN sp[si][p] ELSE img[p][si]]]

\* mutant: the record carries every field, whatever stages were enabled
MakeRecord_AllFields(mv, si, fl) ==
    [spot |-> si, vals |-> [f \in Fields |-> mv.spots[si][f]]]

\* the dictionary mp_worker builds for spot si (lines 56-76)
MakeRecord(mv, si, fl) ==
    [spot |-> si, vals |-> [f \in RecordFields(fl) |-> mv.spots[si][f]]]

\* the setattr loop of run_mp: every key of the record onto validspots[si]
ApplyRecord(sp, a) ==
    [sp EXCEPT ![a.spot] = [f \in Fields |->
        IF f \in DOMAIN a.vals THEN a.vals[f] ELSE sp[a.spot][f]]]

\* -------------------------------------------------------------- state
VARIABLES
    mode,         \* "run_mp": Movie.run_mp is called; "chew_AM": Movie.chew_AM
    Nprocs,       \* run_mp's argument
    flags,        \* run_mp's arguments fits, mods, ETruler, ETmodel
    prior,        \* the value every derived spot field holds before the call
    validspots,   \* self.validspots of the calling process: index -> fields
    images,       \* the contrast images of the calling process
    pc,           \* position of the calling process
    err,          \* the exception that ended the call ("" while there is none)
    blocks,       \* myspots of line 200: one index array per worker
    myspots,      \* myspots of line 213: the list of indices still expected
    resultqueue,  \* records put and not yet got
    jobs,         \* position of each worker process
    wk,           \* each worker's position in its put loop (1-based)
    wmovie,       \* each worker's forked copy of the movie [spots, images]
    nstarted,     \* jobs started so far (loop of line 209)
    njoined,      \* jobs joined so far (loop of line 227)
    nget,         \* resultqueue.get() calls that returned
    nput,         \* records put on the queue
    faults        \* channel faults injected (0 in Spec)

\* the frame indexing of one movie (find_portraits, find_lines,
\* retrieve_angles, startstop)
VARIABLES
    exangles,         \* self.exangles: one raw excitation angle per frame
    emangles,         \* self.emangles: one raw emission angle per frame
    frameoffset,      \* find_portraits' argument
    portrait_indices, \* self.portrait_indices
    Nportraits,       \* self.Nportraits
    line_indices,     \* self.line_indices: per portrait, one mask per line
    Nlines,           \* self.Nlines
    line_edges,       \* self.line_edges (startstop only)
    retrieved,        \* what the last retrieve_angles call returned
    ipc,              \* how far the indexing has come
    ierr              \* the exception that ended it ("" while there is none)

indexvars == <<exangles, emangles, frameoffset, portrait_indices, Nportraits,
               line_indices, Nlines, line_edges, retrieved, ipc, ierr>>

\* the per-spot loops of the contrast functions
\* (find_modulation_depths_and_phases_selective, ETrulerFFT_selective,
\* ETmodel_selective)
VARIABLES
    cfun,      \* the loop that runs
    cspots,    \* self.validspots[si] for si in myspots: attribute -> value
    cimages,   \* the contrast images: image -> pixel of each spot
    loc,       \* the local variables of the last pass of the loop
    csi,       \* passes of the loop made so far
    cerr,      \* the exception that ended the loop ("" while there is none)
    optcalls,  \* the calls of the optimizer: spot and the mex handed over
    cet        \* rulers logged as suspect

contrastvars == <<cfun, cspots, cimages, loc, csi, cerr, optcalls, cet>>

\* the angle grids of Movie.__init__ and the resampling indices that
\* ETrulerFFT_selective derives from them
VARIABLES
    obs_exangles,           \* self.unique_exangles (sorted, in grid units)
    obs_emangles,           \* self.unique_emangles
    phase_offset,           \* phase_offset_in_rad, in grid units
    excitation_angles_grid, \* self.excitation_angles_grid
    emission_angles_grid,   \* self.emission_angles_grid
    newdatalength,          \* ETrulerFFT_selective's argument
    ind_em,                 \* row indices into the average portrait
    ind_ex,                 \* column indices into the average portrait
    gpc,                    \* how far construction and resampling have come
    gerr                    \* the exception that ended them ("" while none)

gridvars == <<obs_exangles, obs_emangles, phase_offset, excitation_angles_grid,
              emission_angles_grid, newdatalength, ind_em, ind_ex, gpc, gerr>>

\* are_spots_valid and the calls that follow it
VARIABLES
    vspots,            \* self.spots: position -> spot
    bg_spot_sample,    \* self.bg_spot_sample.std (NoneStd while undefined)
    vSNR,              \* are_spots_valid's argument SNR
    validframesratio,  \* are_spots_valid's argument, in percent
    vvalidspots,       \* self.validspots: the labels of the spots kept
    validspotindices,  \* self.validspotindices
    vimages,           \* the contrast images: image -> pixel -> value
    vdone,             \* the functions called since are_spots_valid
    vpc                \* "init" before are_spots_valid, "valid" after it

validvars == <<vspots, bg_spot_sample, vSNR, validframesratio, vvalidspots,
               validspotindices, vimages, vdone, vpc>>

\* direct calls of fit_all_portraits_spot_parallel_selective and
\* find_modulation_depths_and_phases_selective on blocks of one movie
VARIABLES
    fdims,     \* Nportraits, Nlines and the size of the excitation grid
    fspots,    \* self.validspots: index -> the spot's fit and contrast fields
    fimages,   \* the contrast images: pixel of each spot -> image -> value
    fcall,     \* the last call: the function and its myspots
    fsolo,     \* the same calls made spot by spot, each with myspots = [si]
    fncols     \* columns handed to the vertical fit of the last fit call

fitvars == <<fdims, fspots, fimages, fcall, fsolo, fncols>>

pipevars == <<indexvars, contrastvars, gridvars, validvars, fitvars>>

distvars == <<mode, Nprocs, flags, prior, validspots, images, pc, err, blocks, myspots,
              resultqueue, jobs, wk, wmovie, nstarted, njoined, nget, nput, faults>>

vars == <<distvars, pipevars>>

coordvars == <<validspots, images, pc, err, blocks, myspots, nstarted, njoined, nget>>

NSpots == Cardinality(DOMAIN validspots)

Procs == 1..Nprocs

PreSpot == [f \in Fields |-> prior]

PreImage(M) == [p \in allprops |-> [si \in 0..(M - 1) |-> NaNPx]]

AllFlags == [Stages -> BOOLEAN]

\* no frame indexing is under way
IndexIdle ==
    /\ exangles = <<>>
    /\ emangles = <<>>
    /\ frameoffset = 0
    /\ portrait_indices = <<>>
    /\ Nportraits = 0
    /\ line_indices = <<>>
    /\ Nlines = 0
    /\ line_edges = <<>>
    /\ retrieved = <<>>
    /\ ipc = "idle"
    /\ ierr = ""

\* no contrast function is under way
ContrastIdle ==
    /\ cfun = "idle"
    /\ cspots = <<>>
    /\ cimages = <<>>
    /\ loc = <<>>
    /\ csi = 0
    /\ cerr = ""
    /\ optcalls = <<>>
    /\ cet = 0

\* no movie is being constructed and nothing is resampled
GridIdle ==
    /\ obs_exangles = <<>>
    /\ obs_emangles = <<>>
    /\ phase_offset = 0
    /\ excitation_angles_grid = <<>>
    /\ emission_angles_grid = <<>>
    /\ newdatalength = 0
    /\ ind_em = <<>>
    /\ ind_ex = <<>>
    /\ gpc = "idle"
    /\ gerr = ""

\* no spot validation is under way
ValidIdle ==
    /\ vspots = <<>>
    /\ bg_spot_sample = 0
    /\ vSNR = 0
    /\ validframesratio = 0
    /\ vvalidspots = <<>>
    /\ validspotindices = <<>>
    /\ vimages = <<>>
    /\ vdone = {}
    /\ vpc = "idle"

\* no direct call of the fit stages is under way
FitIdle ==
    /\ fdims = <<>>
    /\ fspots = <<>>
    /\ fimages = <<>>
    /\ fcall = <<>>
    /\ fsolo = <<>>
    /\ fncols = 0

\* run_mp's defaults: fits=True, mods=True, ETruler=True, ETmodel=False
DefaultFlags == [st \in Stages |-> st # "ETmodel"]

Init ==
    /\ mode \in {"run_mp", "chew_AM"}
    /\ Nprocs \in IF mode = "run_mp" THEN 1..MaxProcs ELSE {1}
    /\ flags \in IF mode = "run_mp" THEN AllFlags ELSE {DefaultFlags}
    /\ prior \in {Unset, Stale}
    /\ \E M \in 0..MaxSpots :
          /\ validspots = [si \in 0..(M - 1) |-> PreSpot]
          /\ images = PreImage(M)
    /\ pc = mode
    /\ err = ""
    /\ blocks = <<>>
    /\ myspots = <<>>
    /\ resultqueue = <<>>
    /\ jobs = [w \in Procs |-> "none"]
    /\ wk = [w \in Procs |-> 1]
    /\ wmovie = [w \in Procs |-> [spots |-> validspots, images |-> images]]
    /\ nstarted = 0
    /\ njoined = 0
    /\ nget = 0
    /\ nput = 0
    /\ faults = 0
    /\ IndexIdle
    /\ ContrastIdle
    /\ GridIdle
    /\ ValidIdle
    /\ FitIdle

\* ------------------------------------------------ run_mp, the caller
\* line 197: assert fits >= mods >= ETruler >= ETmodel
AssertFlags ==
    /\ pc = "run_mp"
    /\ IF FlagsOK(flags)
       THEN pc' = "split" /\ err' = err
       ELSE pc' = "error" /\ err' = "AssertionError: flags"
    /\ UNCHANGED <<pipevars, mode, Nprocs, flags, prior, validspots, images, blocks, myspots,
                   resultqueue, jobs, wk, wmovie, nstarted, njoined, nget, nput, faults>>

\* lines 200-206: split the indices, create the queue and the processes
CreateJobs ==
    /\ pc = "split"
    /\ blocks' = array_split(NSpots, Nprocs)
    /\ resultqueue' = <<>>
    /\ jobs' = [w \in Procs |-> "created"]
    /\ pc' = "start"
    /\ UNCHANGED <<pipevars, mode, Nprocs, flags, prior, validspots, images, err, myspots,
                   wk, wmovie, nstarted, njoined, nget, nput, faults>>

\* lines 209-210: job.start() forks the process; the child works on a copy
\* of the movie as it is at the fork
ForkedCopy == [spots |-> validspots, images |-> images]

StartJob ==
    /\ pc = "start"
    /\ nstarted < Nprocs
    /\ jobs' = [jobs EXCEPT ![nstarted + 1] = "fits"]
    /\ wmovie' = [wmovie EXCEPT ![nstarted + 1] = ForkedCopy]
    /\ nstarted' = nstarted + 1
    /\ UNCHANGED <<pipevars, mode, Nprocs, flags, prior, validspots, images, pc, err, blocks,
                   myspots, resultqueue, wk, njoined, nget, nput, faults>>

\* line 213: form the full list of spots again
FormList ==
    /\ pc = "start"
    /\ nstarted = Nprocs
    /\ myspots' = concatenate(blocks)
    /\ pc' = "drain"
    /\ UNCHANGED <<pipevars, mode, Nprocs, flags, prior, validspots, images, err, blocks,
                   resultqueue, jobs, wk, wmovie, nstarted, njoined, nget, nput, faults>>

\* mutant: a record whose index is not expected is skipped silently
Receive_Tolerant ==
    /\ pc = "drain"
    /\ Len(myspots) > 0
    /\ resultqueue # <<>>
    /\ LET a == Head(resultqueue) IN
       /\ resultqueue' = Tail(resultqueue)
       /\ nget' = nget + 1
       /\ validspots' = IF a.spot \in DOMAIN validspots
                        THEN ApplyRecord(validspots, a) ELSE validspots
       /\ myspots' = IF a.spot \in Range(myspots)
                     THEN pop(myspots, index(myspots, a.spot)) ELSE myspots
    /\ UNCHANGED <<pc, err>>
    /\ UNCHANGED <<pipevars, mode, Nprocs, flags, prior, images, blocks, jobs, wk, wmovie,
                   nstarted, njoined, nput, faults>>

\* lines 215-223, one pass of the while loop: get (blocks while the queue
\* is empty), pop 'spot', setattr every key onto validspots[si], then take
\* si off the list. validspots[si] raises IndexError for an index outside
\* the list (when the record has a key to write); myspots.index(si) raises
\* ValueError for an index that is not, or no longer, expected.
\* mutant: the record is written onto the spot at its arrival position
Merge_ByArrival(sp, a) == ApplyRecord(sp, [a EXCEPT !.spot = nget])

\* mutant: the residual key of a record is not written
Merge_SkipResidual(sp, a) ==
    [sp EXCEPT ![a.spot] = [f \in Fields |->
        IF f \in DOMAIN a.vals /\ f # "residual" THEN a.vals[f] ELSE sp[a.spot][f]]]

Merge(sp, a) == ApplyRecord(sp, a)

Receive ==
    /\ pc = "drain"
    /\ Len(myspots) > 0
    /\ resultqueue # <<>>
    /\ LET a == Head(resultqueue) IN
       /\ resultqueue' = Tail(resultqueue)
       /\ nget' = nget + 1
       /\ IF a.spot \notin DOMAIN validspots /\ DOMAIN a.vals # {}
          THEN /\ pc' = "error" /\ err' = "IndexError"
               /\ UNCHANGED <<validspots, myspots>>
          ELSE /\ validspots' = IF a.spot \in DOMAIN validspots
                                THEN Merge(validspots, a) ELSE validspots
               /\ IF a.spot \in Range(myspots)
                  THEN /\ myspots' = pop(myspots, index(myspots, a.spot))
                       /\ UNCHANGED <<pc, err>>
                  ELSE /\ pc' = "error" /\ err' = "ValueError"
                       /\ UNCHANGED myspots
    /\ UNCHANGED <<pipevars, mode, Nprocs, flags, prior, images, blocks, jobs, wk, wmovie,
                   nstarted, njoined, nput, faults>>

\* mutant: the loop ends one record early
ExitLoop_Early ==
    /\ pc = "drain"
    /\ Len(myspots) <= 1
    /\ pc' = "join"
    /\ UNCHANGED <<pipevars, mode, Nprocs, flags, prior, validspots, images, err, blocks, myspots,
                   resultqueue, jobs, wk, wmovie, nstarted, njoined, nget, nput, faults>>

\* line 214: the loop ends when the list is empty
ExitLoop ==
    /\ pc = "drain"
    /\ Len(myspots) = 0
    /\ pc' = "join"
    /\ UNCHANGED <<pipevars, mode, Nprocs, flags, prior, validspots, images, err, blocks, myspots,
                   resultqueue, jobs, wk, wmovie, nstarted, njoined, nget, nput, faults>>

\* mutant: only a process that returned counts as ended
Ended_OnlyReturned(w) == jobs[w] = "done"

\* lines 227-228: job.join() returns once the process has ended, whether
\* it returned or died of an exception
Ended(w) == jobs[w] \in {"done", "crashed"}

Join ==
    /\ pc = "join"
    /\ njoined < Nprocs
    /\ Ended(njoined + 1)
    /\ njoined' = njoined + 1
    /\ UNCHANGED <<pipevars, mode, Nprocs, flags, prior, validspots, images, pc, err, blocks,
                   myspots, resultqueue, jobs, wk, wmovie, nstarted, nget, nput, faults>>

\* line 231: assert resultqueue.empty()
AssertEmpty ==
    /\ pc = "join"
    /\ njoined = Nprocs
    /\ IF resultqueue = <<>>
       THEN pc' = "update" /\ err' = err
       ELSE pc' = "error" /\ err' = "AssertionError: queue"
    /\ UNCHANGED <<pipevars, mode, Nprocs, flags, prior, validspots, images, blocks, myspots,
                   resultqueue, jobs, wk, wmovie, nstarted, njoined, nget, nput, faults>>

\* lines 234-235: update the contrast images, 'all done'
UpdateImages ==
    /\ pc = "update"
    /\ images' = update_images(validspots, images)
    /\ pc' = "done"
    /\ UNCHANGED <<pipevars, mode, Nprocs, flags, prior, validspots, err, blocks, myspots,
                   resultqueue, jobs, wk, wmovie, nstarted, njoined, nget, nput, faults>>

\* ------------------------------------------------ mp_worker, process w
workervars == <<resultqueue, jobs, wk, wmovie, nput>>

\* The cosine fitter runs with warnings turned into errors (lines 14-15): a
\* call either returns or raises Warning; which, depends on the data, so
\* both outcomes are possible for a block that holds spots. Over an empty
\* block the fit stage raises at np.hstack of an empty list (line 745) and
\* the modulation stage at myspots[0] (line 934).
FitOutcomes(bl) == IF bl = <<>> THEN {"raise"} ELSE {"ok", "raise"}

\* mutant: the worker is a thread that writes the caller's spots
WorkerFits_Shared(w) ==
    /\ jobs[w] = "fits"
    /\ jobs' = [jobs EXCEPT ![w] = "mods"]
    /\ wmovie' = [wmovie EXCEPT ![w] =
                     IF flags["fits"] THEN fit_all_portraits(@, blocks[w]) ELSE @]
    /\ validspots' = IF flags["fits"]
                     THEN fit_all_portraits([spots |-> validspots, images |-> images],
                                            blocks[w]).spots
                     ELSE validspots
    /\ UNCHANGED <<pipevars, mode, Nprocs, flags, prior, resultqueue, wk, nput, faults>>
    /\ UNCHANGED <<images, pc, err, blocks, myspots, nstarted, njoined, nget>>

\* lines 38-39
WorkerFits(w) ==
    /\ jobs[w] = "fits"
    /\ \E out \in FitOutcomes(blocks[w]) :
         IF flags["fits"] /\ out = "raise"
         THEN /\ jobs' = [jobs EXCEPT ![w] = "crashed"]
              /\ UNCHANGED wmovie
         ELSE /\ jobs' = [jobs EXCEPT ![w] = "mods"]
              /\ wmovie' = [wmovie EXCEPT ![w] =
                               IF flags["fits"] THEN fit_all_portraits(@, blocks[w]) ELSE @]
    /\ UNCHANGED <<pipevars, mode, Nprocs, flags, prior, resultqueue, wk, nput, faults>>
    /\ UNCHANGED coordvars

\* lines 40-41
WorkerMods(w) ==
    /\ jobs[w] = "mods"
    /\ \E out \in FitOutcomes(blocks[w]) :
         IF flags["mods"] /\ out = "raise"
         THEN /\ jobs' = [jobs EXCEPT ![w] = "crashed"]
              /\ UNCHANGED wmovie
         ELSE /\ jobs' = [jobs EXCEPT ![w] = "ETruler"]
              /\ wmovie' = [wmovie EXCEPT ![w] =
                               IF flags["mods"] THEN find_modulation_depths(@, blocks[w]) ELSE @]
    /\ UNCHANGED <<pipevars, mode, Nprocs, flags, prior, resultqueue, wk, nput, faults>>
    /\ UNCHANGED coordvars

\* lines 42-44
WorkerETruler(w) ==
    /\ jobs[w] = "ETruler"
    /\ jobs' = [jobs EXCEPT ![w] = "ETmodel"]
    /\ wmovie' = [wmovie EXCEPT ![w] =
                     IF flags["ETruler"] THEN ETruler_stage(@, blocks[w]) ELSE @]
    /\ UNCHANGED <<pipevars, mode, Nprocs, flags, prior, resultqueue, wk, nput, faults>>
    /\ UNCHANGED coordvars

\* lines 45-46
WorkerETmodel(w) ==
    /\ jobs[w] = "ETmodel"
    /\ jobs' = [jobs EXCEPT ![w] = "put"]
    /\ wmovie' = [wmovie EXCEPT ![w] =
                     IF flags["ETmodel"] THEN ETmodel_selective(@, blocks[w]) ELSE @]
    /\ UNCHANGED <<pipevars, mode, Nprocs, flags, prior, resultqueue, wk, nput, faults>>
    /\ UNCHANGED coordvars

\* mutant: the record of a spot is put twice
WorkerPut_Twice(w) ==
    /\ jobs[w] = "put"
    /\ wk[w] <= Len(blocks[w])
    /\ resultqueue' = resultqueue \o << MakeRecord(wmovie[w], blocks[w][wk[w]], flags),
                                       MakeRecord(wmovie[w], blocks[w][wk[w]], flags) >>
    /\ wk' = [wk EXCEPT ![w] = @ + 1]
    /\ nput' = nput + 2
    /\ UNCHANGED <<pipevars, mode, Nprocs, flags, prior, jobs, wmovie, faults>>
    /\ UNCHANGED <<validspots, images, pc, err, blocks, myspots, nstarted, njoined, nget>>

\* lines 55-78, one pass of the loop: build the record of the next spot of
\* the block and put it on the queue
WorkerPut(w) ==
    /\ jobs[w] = "put"
    /\ wk[w] <= Len(blocks[w])
    /\ resultqueue' = Append(resultqueue, MakeRecord(wmovie[w], blocks[w][wk[w]], flags))
    /\ wk' = [wk EXCEPT ![w] = @ + 1]
    /\ nput' = nput + 1
    /\ UNCHANGED <<pipevars, mode, Nprocs, flags, prior, jobs, wmovie, faults>>
    /\ UNCHANGED coordvars

\* line 79: return, the process ends
WorkerReturn(w) ==
    /\ jobs[w] = "put"
    /\ wk[w] > Len(blocks[w])
    /\ jobs' = [jobs EXCEPT ![w] = "done"]
    /\ UNCHANGED <<pipevars, mode, Nprocs, flags, prior, resultqueue, wk, wmovie, nput, faults>>
    /\ UNCHANGED coordvars

WorkerStep(w) ==
    \/ WorkerFits(w)
    \/ WorkerMods(w)
    \/ WorkerETruler(w)
    \/ WorkerETmodel(w)
    \/ WorkerPut(w)
    \/ WorkerReturn(w)

\* --------------------------------------- chew_AM, the direct call chain
AllSpots == [k \in 1..NSpots |-> k - 1]

OwnMovie == [spots |-> validspots, images |-> images]

\* lines 1202-1203: no valid spots is a ValueError
ChewCheck ==
    /\ pc = "chew_AM"
    /\ IF NSpots < 1
       THEN pc' = "error" /\ err' = "ValueError: no valid spots"
       ELSE pc' = "chew_fits" /\ err' = err
    /\ UNCHANGED <<pipevars, mode, Nprocs, flags, prior, validspots, images, blocks, myspots,
                   nstarted, njoined, nget, faults>>
    /\ UNCHANGED workervars

\* line 1205: the fit of all valid spots in the calling process; a Warning
\* of the cosine fitter propagates to the caller
ChewFits ==
    /\ pc = "chew_fits"
    /\ \E out \in FitOutcomes(AllSpots) :
         IF out = "raise"
         THEN /\ pc' = "error" /\ err' = "Warning"
              /\ UNCHANGED <<validspots, images>>
         ELSE /\ pc' = "chew_mods" /\ err' = err
              /\ validspots' = fit_all_portraits(OwnMovie, AllSpots).spots
              /\ images' = fit_all_portraits(OwnMovie, AllSpots).images
    /\ UNCHANGED <<pipevars, mode, Nprocs, flags, prior, blocks, myspots, nstarted, njoined,
                   nget, faults>>
    /\ UNCHANGED workervars

\* line 1206
ChewMods ==
    /\ pc = "chew_mods"
    /\ \E out \in FitOutcomes(AllSpots) :
         IF out = "raise"
         THEN /\ pc' = "error" /\ err' = "Warning"
              /\ UNCHANGED <<validspots, images>>
         ELSE /\ pc' = "done" /\ err' = err
              /\ validspots' = find_modulation_depths(OwnMovie, AllSpots).spots
              /\ images' = find_modulation_depths(OwnMovie, AllSpots).images
    /\ UNCHANGED <<pipevars, mode, Nprocs, flags, prior, blocks, myspots, nstarted, njoined,
                   nget, faults>>
    /\ UNCHANGED workervars

\* ------------------------------------------------------ specification
CoordinatorStep ==
    \/ AssertFlags
    \/ CreateJobs
    \/ StartJob
    \/ FormList
    \/ Receive
    \/ ExitLoop
    \/ Join
    \/ AssertEmpty
    \/ UpdateImages
    \/ ChewCheck
    \/ ChewFits
    \/ ChewMods

Next ==
    \/ CoordinatorStep
    \/ \E w \in Procs : WorkerStep(w)

Spec == Init /\ [][Next]_vars

\* Scheduling: the operating system runs every process that can take a step.
FairSpec ==
    /\ Spec
    /\ WF_vars(CoordinatorStep)
    /\ \A w \in 1..MaxProcs : WF_vars(w \in Procs /\ WorkerStep(w))

\* ---------------------------------------- a faulty result channel
\* The merge-integrity faults of the error taxonomy: a record delivered
\* twice, or a record for an index that was never dispatched. Not part of
\* Spec: mp_worker and the queue produce neither.
ChannelFault(w) ==
    /\ jobs[w] = "put"
    /\ wk[w] <= Len(blocks[w])
    /\ faults < MaxFaults
    /\ \E kind \in {"duplicated", "undispatched"} :
         LET a == MakeRecord(wmovie[w], blocks[w][wk[w]], flags) IN
         resultqueue' = resultqueue \o
            << a, IF kind = "duplicated" THEN a ELSE [a EXCEPT !.spot = NSpots] >>
    /\ wk' = [wk EXCEPT ![w] = @ + 1]
    /\ nput' = nput + 2
    /\ faults' = faults + 1
    /\ UNCHANGED <<pipevars, mode, Nprocs, flags, prior, jobs, wmovie>>
    /\ UNCHANGED coordvars

NextFault ==
    \/ Next
    \/ \E w \in Procs : ChannelFault(w)

FaultSpec == Init /\ [][NextFault]_vars

\* =================================================== frame indexing
\* Angles are fixed-point numbers in thousandths, so that rounding to two
\* decimals (np.round(x, decimals=2)) is rounding to a multiple of ten.
\* Frame numbers are 0-based as in the source; frame f is entry f + 1.
MaxFrames == 9
MaxEx == 2
MaxEm == 2
MaxOffset == 1
MaxJitter == 1

\* np.round( x, decimals=2 ): to the nearest hundredth, ties to the even one
Round2(x) ==
    LET q == x \div 10
        r == x % 10
    IN  IF r < 5 THEN 10 * q
        ELSE IF r > 5 THEN 10 * (q + 1)
        ELSE IF q % 2 = 0 THEN 10 * q ELSE 10 * (q + 1)

rounded(a) == [i \in 1..Len(a) |-> Round2(a[i])]

\* np.unique( a ): the distinct values, ascending
RECURSIVE SortedSeq(_)
SortedSeq(S) ==
    IF S = {} THEN <<>>
    ELSE LET m == CHOOSE x \in S : \A y \in S : x <= y
         IN  <<m>> \o SortedSeq(S \ {m})

unique(a) == SortedSeq(Range(a))

\* a[ start:stop ] for 0 <= start
slice(a, start, stop) ==
    LET hi == IF stop < Len(a) THEN stop ELSE Len(a)
    IN  IF start >= hi THEN <<>> ELSE [i \in 1..(hi - start) |-> a[start + i]]

\* a[ mask ]: the entries of a the boolean mask selects
select(a, mask) ==
    LET pos == SelectSeq([i \in 1..Len(a) |-> i], LAMBDA i : mask[i])
    IN  [j \in 1..Len(pos) |-> a[pos[j]]]

\* lines 527-533: the offsets pi*fpp + frameoffset, up to the first one
\* that lies beyond Nframes
\* mutant: the offsets are not checked against Nframes
PortraitOffsets_Unchecked(Np, fpp, off, Nframes) ==
    [p \in 1..(Np + 1) |-> (p - 1) * fpp + off]

PortraitOffsets(Np, fpp, off, Nframes) ==
    LET ok == {p \in 0..Np : \A q \in 0..p : ~(q * fpp + off > Nframes)}
    IN  [p \in 1..Cardinality(ok) |-> (p - 1) * fpp + off]

\* line 525: assert np.mod( Nframes, fpp )==0
\* mutant: the sanity check is dropped
Divisible_NoCheck(Nframes, fpp) == TRUE

Divisible(Nframes, fpp) == Nframes % fpp = 0

\* Movie.find_portraits (lines 515-541)
find_portraits(exa, ema, off) ==
    LET number_of_verticals == Len(unique(rounded(exa)))
        number_of_lines == Len(unique(rounded(ema)))
        Nframes == Len(exa)
        fpp == number_of_verticals * number_of_lines
    IN  IF fpp = 0
        THEN [err |-> "ZeroDivisionError", indices |-> <<>>, N |-> 0]
        ELSE IF ~Divisible(Nframes, fpp)
        THEN [err |-> "AssertionError: Nframes", indices |-> <<>>, N |-> 0]
        ELSE LET pidx == PortraitOffsets(Nframes \div fpp, fpp, off, Nframes)
             IN  [err |-> IF Len(pidx) - 1 > 0 THEN "" ELSE "AssertionError: Nportraits",
                  indices |-> pidx, N |-> Len(pidx) - 1]

\* lines 551-555: the masks of one portrait, one per unique rounded
\* emission angle of the portrait
\* mutant: the masks compare the unrounded angles
PortraitLines_Raw(ema, pstart, pstop) ==
    LET raw == slice(ema, pstart, pstop)
        unique_emangles == unique(rounded(raw))
    IN  [li \in 1..Len(unique_emangles) |->
            [j \in 1..Len(raw) |-> unique_emangles[li] = raw[j]]]

PortraitLines(ema, pstart, pstop) ==
    LET emangles_rounded == rounded(slice(ema, pstart, pstop))
        unique_emangles == unique(emangles_rounded)
    IN  [li \in 1..Len(unique_emangles) |->
            [j \in 1..Len(emangles_rounded) |-> unique_emangles[li] = emangles_rounded[j]]]

\* Movie.find_lines (lines 544-563); Nlines is the count of the last portrait
find_lines(ema, pidx, Np) ==
    LET all == [pi \in 1..Np |-> PortraitLines(ema, pidx[pi], pidx[pi + 1])]
    IN  [line_indices |-> all, Nlines |-> Len(all[Np])]

\* Movie.retrieve_angles (lines 649-665), iportrait and iline 0-based
retrieve_angles(exa, ema, pidx, lidx, iportrait, iline) ==
    LET pstart == pidx[iportrait + 1]
        pstop == pidx[iportrait + 2]
        mask == lidx[iportrait + 1][iline + 1]
        exs == select(slice(exa, pstart, pstop), mask)
        ems == select(slice(ema, pstart, pstop), mask)
    IN  IF \A j \in 1..Len(ems) : ems[1] = ems[j]
        THEN [err |-> "", exangles |-> exs, emangle |-> ems[1]]
        ELSE [err |-> "AssertionError: emangle", exangles |-> <<>>, emangle |-> 0]

\* lines 580-584: the 0-based positions after which the rounded emission
\* angle changes; position 0 and the last position always count
edge_detect(emr) ==
    LET d == [i \in 1..Len(emr) |->
                 IF i = Len(emr) \/ i = 1 \/ emr[i + 1] - emr[i] # 0 THEN 1 ELSE 0]
    IN  SelectSeq([i \in 1..Len(d) |-> i - 1], LAMBDA e : d[e + 1] # 0)

\* line 595: indices[0,0] = 0
\* mutant: the first start is left where the edge detector put it
FirstFrameOverride_None(ind) == ind

FirstFrameOverride(ind) == [ind EXCEPT ![1] = <<0, ind[1][2]>>]

\* Movie.startstop (lines 566-604): d[0] = 1 needs two frames at least,
\* indices[0,0] needs a portrait
startstop(ema) ==
    LET emr == rounded(ema)
        number_of_lines == Len(unique(emr))
        edges == edge_detect(emr)
        Np == (Len(edges) - 1) \div number_of_lines
        ind == [i \in 1..Np |-> <<edges[(i - 1) * number_of_lines + 1] + 1,
                                  edges[i * number_of_lines + 1]>>]
        le == [i \in 1..(number_of_lines + 1) |-> IF i = 1 THEN edges[i] ELSE edges[i] + 1]
    IN  IF Len(ema) < 2 \/ Np = 0
        THEN [err |-> "IndexError", indices |-> <<>>, edges |-> <<>>]
        ELSE [err |-> "", indices |-> FirstFrameOverride(ind), edges |-> le]

\* --- the motor log: every portrait sweeps the emission angles, and for
\* each of them the excitation angles; some frames read an emission angle
\* a thousandth off
ExAngle(f, nex) == 1000 * (f % nex)

EmAngle(f, nex, nem) == 1000 * ((f \div nex) % nem)

\* nothing of the work distribution is under way
DistIdle ==
    /\ mode = "index"
    /\ Nprocs = 1
    /\ flags = DefaultFlags
    /\ prior = Unset
    /\ validspots = <<>>
    /\ images = PreImage(0)
    /\ pc = "done"
    /\ err = ""
    /\ blocks = <<>>
    /\ myspots = <<>>
    /\ resultqueue = <<>>
    /\ jobs = [w \in 1..1 |-> "none"]
    /\ wk = [w \in 1..1 |-> 1]
    /\ wmovie = [w \in 1..1 |-> [spots |-> validspots, images |-> images]]
    /\ nstarted = 0
    /\ njoined = 0
    /\ nget = 0
    /\ nput = 0
    /\ faults = 0

IndexInit ==
    /\ DistIdle
    /\ ContrastIdle
    /\ GridIdle
    /\ ValidIdle
    /\ FitIdle
    /\ \E N \in 1..MaxFrames, nex \in 1..MaxEx, nem \in 1..MaxEm :
       \E J \in {S \in SUBSET (1..N) : Cardinality(S) <= MaxJitter} :
          /\ exangles = [i \in 1..N |-> ExAngle(i - 1, nex)]
          /\ emangles = [i \in 1..N |-> EmAngle(i - 1, nex, nem) + (IF i \in J THEN 1 ELSE 0)]
    /\ frameoffset \in 0..MaxOffset
    /\ portrait_indices = <<>>
    /\ Nportraits = 0
    /\ line_indices = <<>>
    /\ Nlines = 0
    /\ line_edges = <<>>
    /\ retrieved = <<>>
    /\ ipc = "init"
    /\ ierr = ""

FindPortraits ==
    /\ ipc = "init"
    /\ LET r == find_portraits(exangles, emangles, frameoffset) IN
       /\ ierr' = r.err
       /\ ipc' = IF r.err = "" THEN "portraits" ELSE "error"
       /\ portrait_indices' = IF r.err \in {"", "AssertionError: Nportraits"}
                              THEN r.indices ELSE portrait_indices
       /\ Nportraits' = IF r.err \in {"", "AssertionError: Nportraits"}
                        THEN r.N ELSE Nportraits
    /\ UNCHANGED <<exangles, emangles, frameoffset, line_indices, Nlines, line_edges,
                   retrieved>>
    /\ UNCHANGED <<distvars, contrastvars, gridvars, validvars, fitvars>>

FindLines ==
    /\ ipc = "portraits"
    /\ LET r == find_lines(emangles, portrait_indices, Nportraits) IN
       /\ line_indices' = r.line_indices
       /\ Nlines' = r.Nlines
    /\ ipc' = "lines"
    /\ UNCHANGED <<exangles, emangles, frameoffset, portrait_indices, Nportraits,
                   line_edges, retrieved, ierr>>
    /\ UNCHANGED <<distvars, contrastvars, gridvars, validvars, fitvars>>

RetrieveAngles ==
    /\ ipc = "lines"
    /\ \E iportrait \in 0..(Nportraits - 1), iline \in 0..(Nlines - 1) :
         LET r == retrieve_angles(exangles, emangles, portrait_indices, line_indices,
                                  iportrait, iline) IN
         /\ ierr' = r.err
         /\ ipc' = IF r.err = "" THEN "lines" ELSE "error"
         /\ retrieved' = IF r.err = ""
                         THEN [iportrait |-> iportrait, iline |-> iline,
                               exangles |-> r.exangles, emangle |-> r.emangle]
                         ELSE retrieved
    /\ UNCHANGED <<exangles, emangles, frameoffset, portrait_indices, Nportraits,
                   line_indices, Nlines, line_edges>>
    /\ UNCHANGED <<distvars, contrastvars, gridvars, validvars, fitvars>>

StartStop ==
    /\ ipc = "init"
    /\ LET r == startstop(emangles) IN
       /\ ierr' = r.err
       /\ ipc' = IF r.err = "" THEN "startstop" ELSE "error"
       /\ portrait_indices' = r.indices
       /\ Nportraits' = Len(r.indices)
       /\ line_edges' = r.edges
       /\ Nlines' = IF r.err = "" THEN Len(r.edges) - 1 ELSE Nlines
    /\ UNCHANGED <<exangles, emangles, frameoffset, line_indices, retrieved>>
    /\ UNCHANGED <<distvars, contrastvars, gridvars, validvars, fitvars>>

IndexNext ==
    \/ FindPortraits
    \/ FindLines
    \/ RetrieveAngles
    \/ StartStop

IndexSpec == IndexInit /\ [][IndexNext]_vars

\* ================================================ contrast functions
\* Numbers are exact fractions num/den with den > 0, or NaN; an attribute
\* that was never assigned holds NoValue. Phases are counted in steps of
\* pi / (2 * PhaseSteps).
MaxCSpots == 2
PhaseSteps == 2
MaxI == 2

HalfPi == PhaseSteps

Pi == 2 * PhaseSteps

NaN == [k |-> "nan", num |-> 0, den |-> 1]

NoValue == [k |-> "unset", num |-> 0, den |-> 1]

Q(n, d) == [k |-> "num", num |-> n, den |-> d]

isnan(x) == x.k = "nan"

IsNum(x) == x.k = "num"

\* float comparisons: False as soon as an operand is NaN
Lt(a, b) ==
    /\ IsNum(a)
    /\ IsNum(b)
    /\ IF a.den = b.den THEN a.num < b.num ELSE a.num * b.den < b.num * a.den

Gt(a, b) == Lt(b, a)

RSub(a, b) ==
    IF isnan(a) \/ isnan(b) THEN NaN
    ELSE Q(a.num * b.den - b.num * a.den, a.den * b.den)

\* a / b for b # 0
RDiv(a, b) ==
    IF isnan(a) \/ isnan(b) THEN NaN
    ELSE IF b.num > 0 THEN Q(a.num * b.den, a.den * b.num)
    ELSE Q(0 - a.num * b.den, 0 - a.den * b.num)

Abs(a) == IF IsNum(a) /\ a.num < 0 THEN Q(0 - a.num, a.den) ELSE a

CFields ==
    {"phase_ex", "phase_em", "LS", "M_ex", "anisotropy", "anisotropy_n", "ET_ruler"}
      \cup ETmodelFields

LocNames == {"Ipara", "Iperp", "peaksum", "crossdiff", "MYcrossdiff", "ruler", "mex"}

NoLocals == [v \in LocNames |-> NoValue]

\* Movie.store_property_in_image: the spot's value onto the spot's pixels
\* (spot si owns pixel si of every image)
store_property_in_image(img, sp, si, prop) ==
    [img EXCEPT ![prop] = [@ EXCEPT ![si] = sp[si][prop]]]

RECURSIVE store_all(_, _, _, _)
store_all(img, sp, si, props) ==
    IF props = {} THEN img
    ELSE LET p == CHOOSE q \in props : TRUE
         IN  store_all(store_property_in_image(img, sp, si, p), sp, si, props \ {p})

\* lines 810-812: LS = ph_ex - ph_em, then the two corrections by pi
wrap_LS(ph_ex, ph_em) ==
    LET LS == ph_ex - ph_em
        a == IF LS > HalfPi THEN LS - Pi ELSE LS
    IN  IF a < 0 - HalfPi THEN a + Pi ELSE a

\* lines 878 and 923: not float(Ipara+2*Iperp) == 0
\* mutant: the denominator is not tested
NonZero_Always(x) == TRUE

NonZero(x) == x # 0

\* float(a) / float(b)
float_div(a, b) ==
    IF b = 0 THEN [err |-> "ZeroDivisionError", val |-> NoValue]
    ELSE [err |-> "", val |-> IF b > 0 THEN Q(a, b) ELSE Q(0 - a, 0 - b)]

\* lines 878-881 and 923-928
anisotropy_value(Ipara, Iperp) ==
    IF NonZero(Ipara + 2 * Iperp)
    THEN float_div(Ipara - Iperp, Ipara + 2 * Iperp)
    ELSE [err |-> "", val |-> NaN]

\* line 1003: np.abs( sum - 1 ) > .08
PeaksOff(peaksum) == Gt(Abs(RSub(peaksum, Q(1, 1))), Q(8, 100))

\* line 1011: np.arccos( .5*(3*M_ex-1) ) of a number outside [-1,1] is
\* an 'invalid value' RuntimeWarning, which line 15 turns into an error
ArccosDefined(M_ex) ==
    ~IsNum(M_ex) \/ (~Gt(M_ex, Q(1, 1)) /\ ~Lt(M_ex, Q(0 - 1, 3)))

\* lines 1044-1047
\* mutant: the ruler is stored as computed
clamp_None(ruler) == ruler

clamp(ruler) ==
    LET a == IF Lt(ruler, Q(0, 1)) THEN Q(0, 1) ELSE ruler
    IN  IF Gt(a, Q(1, 1)) THEN Q(1, 1) ELSE a

\* line 1038
Bonkers(ruler) == Lt(ruler, Q(0 - 1, 10)) \/ Gt(ruler, Q(11, 10))

\* line 1144: np.clip( M_ex, .000001, .999999 )
clip(x, lo, hi) == IF Lt(x, lo) THEN lo ELSE IF Gt(x, hi) THEN hi ELSE x

\* line 1146: not np.isnan(mex)
\* mutant: every spot is handed to the optimizer
Defined_Always(mex) == TRUE

Defined(mex) == ~isnan(mex)

\* the_new_way (lines 1104-1131): what the optimizer, started at
\* a0 = [mex, phex, 1, .5], hands back
the_new_way(mex) ==
    [f \in ETmodelFields |->
        CASE f = "ETmodel_md_fu" -> mex
          [] f = "ETmodel_th_fu" -> Q(0, 1)
          [] f = "ETmodel_gr" -> Q(1, 1)
          [] f = "ETmodel_et" -> Q(1, 2)
          [] f = "ETmodel_resi" -> Q(0, 1)]

\* --- what the external routines may hand to the loops
Phases == (0 - HalfPi)..HalfPi

Intensities == (0 - MaxI)..MaxI

\* M_ex as the modulation fit left it: undefined, below, inside and
\* above the limits of reason
MexValues == {NaN, Q(0 - 1, 200000), Q(1, 2), Q(3, 2)}

\* sum of the four observed peaks
PeakSums == {Q(50, 100), Q(100, 100), Q(150, 100)}

\* peaks[1] - peaks[3], observed
CrossDiffs == {Q(0 - 4, 100), Q(10, 100), Q(21, 100), Q(24, 100)}

\* MYpeaks[1] - MYpeaks[3] of the no-ET model
ModelCrossDiffs == {Q(20, 100)}

ContrastLoops == {"LS", "anisotropy", "anisotropy_n", "ETruler", "ETmodel"}

NCSpots == Len(cspots)

ContrastInit ==
    /\ DistIdle
    /\ IndexIdle
    /\ GridIdle
    /\ ValidIdle
    /\ FitIdle
    /\ cfun \in ContrastLoops
    /\ \E n \in 1..MaxCSpots :
          /\ cspots \in [1..n -> {[f \in CFields |-> IF f = "M_ex" THEN m ELSE NoValue] :
                                     m \in IF cfun \in {"ETruler", "ETmodel"}
                                           THEN MexValues ELSE {NoValue}}]
          /\ cimages = [f \in CFields |-> [si \in 1..n |-> NaN]]
    /\ loc = NoLocals
    /\ csi = 0
    /\ cerr = ""
    /\ optcalls = <<>>
    /\ cet = 0

Running(fun) == cfun = fun /\ cerr = "" /\ csi < NCSpots

\* lines 813-832, one pass: the spot's phases and line shift
ModsAssign ==
    /\ Running("LS")
    /\ \E ph_ex \in Phases, ph_em \in Phases :
         LET si == csi + 1
             sp == [cspots EXCEPT ![si]["phase_ex"] = Q(ph_ex, 1),
                                  ![si]["phase_em"] = Q(ph_em, 1),
                                  ![si]["LS"] = Q(wrap_LS(ph_ex, ph_em), 1)]
         IN  /\ cspots' = sp
             /\ cimages' = store_all(cimages, sp, si, {"phase_ex", "phase_em", "LS"})
    /\ csi' = csi + 1
    /\ UNCHANGED <<cfun, loc, cerr, optcalls, cet>>
    /\ UNCHANGED <<distvars, indexvars, gridvars, validvars, fitvars>>

\* lines 872-884 (prop "anisotropy") and 917-932 (prop "anisotropy_n"),
\* one pass
AnisotropyPass(prop) ==
    /\ Running(prop)
    /\ \E Ipara \in Intensities, Iperp \in Intensities :
         LET si == csi + 1
             r == anisotropy_value(Ipara, Iperp)
             sp == [cspots EXCEPT ![si][prop] = r.val]
         IN  /\ loc' = [loc EXCEPT !["Ipara"] = Q(Ipara, 1), !["Iperp"] = Q(Iperp, 1)]
             /\ cerr' = r.err
             /\ cspots' = IF r.err = "" THEN sp ELSE cspots
             /\ cimages' = IF r.err = ""
                           THEN store_property_in_image(cimages, sp, si, prop)
                           ELSE cimages
    /\ csi' = csi + 1
    /\ UNCHANGED <<cfun, optcalls, cet>>
    /\ UNCHANGED <<distvars, indexvars, gridvars, validvars, fitvars>>

Anisotropy == AnisotropyPass("anisotropy")

AnisotropyN == AnisotropyPass("anisotropy_n")

\* ETrulerFFT_selective, lines 999-1050, one pass
ETrulerPass ==
    /\ Running("ETruler")
    /\ \E peaksum \in PeakSums, crossdiff \in CrossDiffs, my \in ModelCrossDiffs :
         LET si == csi + 1
             M_ex == cspots[si]["M_ex"]
             flagged == IF PeaksOff(peaksum)
                        THEN [cspots EXCEPT ![si]["ET_ruler"] = NaN] ELSE cspots
             MYcrossdiff == IF isnan(M_ex) THEN NaN ELSE my
             ruler == RSub(Q(1, 1), RDiv(crossdiff, MYcrossdiff))
             sp == [flagged EXCEPT ![si]["ET_ruler"] = clamp(ruler)]
         IN  IF ArccosDefined(M_ex)
             THEN /\ cspots' = sp
                  /\ cimages' = store_property_in_image(cimages, sp, si, "ET_ruler")
                  /\ loc' = [loc EXCEPT !["peaksum"] = peaksum, !["crossdiff"] = crossdiff,
                                        !["MYcrossdiff"] = MYcrossdiff, !["ruler"] = ruler]
                  /\ cet' = IF Bonkers(ruler) THEN cet + 1 ELSE cet
                  /\ cerr' = cerr
             ELSE /\ cspots' = flagged
                  /\ loc' = [loc EXCEPT !["peaksum"] = peaksum, !["crossdiff"] = crossdiff]
                  /\ cerr' = "RuntimeWarning: arccos"
                  /\ UNCHANGED <<cimages, cet>>
    /\ csi' = csi + 1
    /\ UNCHANGED <<cfun, optcalls>>
    /\ UNCHANGED <<distvars, indexvars, gridvars, validvars, fitvars>>

\* ETmodel_selective, lines 1134-1195, one pass
ETmodelPass ==
    /\ Running("ETmodel")
    /\ LET si == csi + 1
           mex == clip(cspots[si]["M_ex"], Q(1, 1000000), Q(999999, 1000000))
           out == IF Defined(mex) THEN the_new_way(mex) ELSE [f \in ETmodelFields |-> NaN]
           sp == [cspots EXCEPT ![si] = [f \in CFields |->
                                            IF f \in ETmodelFields THEN out[f] ELSE @[f]]]
       IN  /\ optcalls' = IF Defined(mex)
                          THEN Append(optcalls, [spot |-> si, mex |-> mex]) ELSE optcalls
           /\ cspots' = sp
           /\ cimages' = store_all(cimages, sp, si, ETmodelFields)
           /\ loc' = [loc EXCEPT !["mex"] = mex]
    /\ csi' = csi + 1
    /\ UNCHANGED <<cfun, cerr, cet>>
    /\ UNCHANGED <<distvars, indexvars, gridvars, validvars, fitvars>>

ContrastNext ==
    \/ ModsAssign
    \/ Anisotropy
    \/ AnisotropyN
    \/ ETrulerPass
    \/ ETmodelPass

ContrastSpec == ContrastInit /\ [][ContrastNext]_vars

\* ===================================================== angle grids
\* Angles are whole numbers of grid units: GridPi units make pi, and one
\* unit is one machine epsilon, so that 10 epsilons are TenEps units.
MaxGrid == 3     \* most unique angles on one axis
MaxShift == 2    \* the phase offset reaches MaxShift quarter turns either way
MaxLen == 6      \* longest resampled signal

GridPi == 1200

TenEps == 10

DefaultSlope == 7

\* np.abs(a-b)
dist(a, b) == IF a < b THEN b - a ELSE a - b

\* np.linspace(0,np.pi,n, endpoint=False)
linspace(n) == [k \in 1..n |-> ((k - 1) * GridPi) \div n]

\* mutant: the shifted angles are not wrapped back into [0, pi)
excitation_grid_NoWrap(n, off) == [k \in 1..n |-> linspace(n)[k] + off]

\* lines 142-151: shift by the phase offset, snap what is close to pi to
\* pi, take the modulus w.r.t. pi
excitation_grid(n, off) ==
    LET g == [k \in 1..n |-> linspace(n)[k] + off]
        fix_close_to_pi_here == [k \in 1..n |-> dist(g[k], GridPi) < TenEps]
        fixed == [k \in 1..n |-> IF fix_close_to_pi_here[k] THEN GridPi ELSE g[k]]
    IN  [k \in 1..n |-> fixed[k] % GridPi]

\* line 143
emission_grid(n) == linspace(n)

\* mutant: the grid is never compared with the observed angles
matches_Always(a, grid) == TRUE

\* np.any( np.abs(a-grid) < 10*np.finfo(np.float).eps )
matches(a, grid) == \E k \in 1..Len(grid) : dist(a, grid[k]) < TenEps

\* lines 160-166: the two loops of assertions; the first failure is raised
validate_grids(uex, uem, gex, gem) ==
    IF \E i \in 1..Len(uex) : ~matches(uex[i], gex)
    THEN "AssertionError: excitation"
    ELSE IF \E i \in 1..Len(uem) : ~matches(uem[i], gem)
         THEN "AssertionError: emission"
         ELSE ""

\* the angles a schedule of n steps visits when the motor starts off by off
Scheduled(n, off) == SortedSeq({(linspace(n)[k] + off) % GridPi : k \in 1..n})

\* the first of the angles is read j units too high
Observed(a, j) == [k \in 1..Len(a) |-> IF k = 1 THEN a[k] + j ELSE a[k]]

PhaseOffsets ==
    {q * (GridPi \div 4) - d : q \in (0 - MaxShift)..MaxShift, d \in {0, TenEps \div 2}}

ReadingErrors == {0, TenEps - 1, TenEps}

GridInit ==
    /\ DistIdle
    /\ IndexIdle
    /\ ContrastIdle
    /\ ValidIdle
    /\ FitIdle
    /\ phase_offset \in PhaseOffsets
    /\ \E nex \in 1..MaxGrid, nem \in 1..MaxGrid, jex \in ReadingErrors, jem \in ReadingErrors :
          /\ obs_exangles = Observed(Scheduled(nex, phase_offset), jex)
          /\ obs_emangles = Observed(Scheduled(nem, 0), jem)
    /\ excitation_angles_grid = <<>>
    /\ emission_angles_grid = <<>>
    /\ newdatalength = 0
    /\ ind_em = <<>>
    /\ ind_ex = <<>>
    /\ gpc = "init"
    /\ gerr = ""

\* Movie.__init__, lines 138-166
MovieInit ==
    /\ gpc = "init"
    /\ LET ExAngleGridSize == Len(obs_exangles)
           EmAngleGridSize == Len(obs_emangles)
           gex == excitation_grid(ExAngleGridSize, phase_offset)
           gem == emission_grid(EmAngleGridSize)
           e == validate_grids(obs_exangles, obs_emangles, gex, gem)
       IN  /\ excitation_angles_grid' = gex
           /\ emission_angles_grid' = gem
           /\ gerr' = e
           /\ gpc' = IF e = "" THEN "constructed" ELSE "error"
    /\ UNCHANGED <<obs_exangles, obs_emangles, phase_offset, newdatalength, ind_em, ind_ex>>
    /\ UNCHANGED <<distvars, indexvars, contrastvars, validvars, fitvars>>

\* lines 953-959: np.mod( slope*n, grid.size-1 ) for n = 0..newdatalength-1
wrapped_indices(len, step, grid) ==
    [n \in 1..len |-> (step * (n - 1)) % (Len(grid) - 1)]

\* lines 970-973: the shape of sam after the conditional trimming
sam_rows == Len(emission_angles_grid)
              - (IF emission_angles_grid[Len(emission_angles_grid)] = GridPi THEN 1 ELSE 0)

sam_cols == Len(excitation_angles_grid)
              - (IF excitation_angles_grid[Len(excitation_angles_grid)] = GridPi THEN 1 ELSE 0)

\* ETrulerFFT_selective, lines 952-975; a modulus of zero raises numpy's
\* divide-by-zero warning, which line 15 turns into an exception
ETrulerResample ==
    /\ gpc = "constructed"
    /\ \E len \in 1..MaxLen :
          /\ newdatalength' = len
          /\ IF Len(emission_angles_grid) = 1 \/ Len(excitation_angles_grid) = 1
             THEN /\ gerr' = "RuntimeWarning: divide by zero"
                  /\ gpc' = "error"
                  /\ UNCHANGED <<ind_em, ind_ex>>
             ELSE /\ ind_em' = wrapped_indices(len, 1, emission_angles_grid)
                  /\ ind_ex' = wrapped_indices(len, DefaultSlope, excitation_angles_grid)
                  /\ gerr' = ""
                  /\ gpc' = "resampled"
    /\ UNCHANGED <<obs_exangles, obs_emangles, phase_offset, excitation_angles_grid,
                   emission_angles_grid>>
    /\ UNCHANGED <<distvars, indexvars, contrastvars, validvars, fitvars>>

GridNext ==
    \/ MovieInit
    \/ ETrulerResample

GridSpec == GridInit /\ [][GridNext]_vars

\* ================================================= spot validation
MaxVSpots == 2   \* most spots defined on the movie

\* None: no background spot defined, no border background, not yet assigned
None == 0 - 1

\* np.inf, in hundredths like every SNR
Inf == 1000000

\* the labels of the spot objects, in the order of their definition
Labels == <<"s0", "s1", "s2", "s3">>

\* s.intensity: one value per frame
IntensityPatterns == {<<20, 20>>, <<20, 1>>, <<1, 1>>}

\* the images of initContrastImages, named without their suffix _image
VImages == {"spot_coverage", "mean_intensity", "meanSNR", "framecountSNR"} \cup allprops

\* mutant: the value is written to the pixels of every spot
spot_pixels_Any(sp, si) == UNION {sp[j].pixel : j \in DOMAIN sp}

\* line 1272: for p in spot.pixel
spot_pixels(sp, si) == sp[si].pixel

\* store_property_in_image: the value goes to every pixel of the spot
StorePixels(img, pixel, v) == [p \in DOMAIN img |-> IF p \in pixel THEN v ELSE img[p]]

\* lines 1231-1234: the SNR of every frame, in hundredths
frame_SNR(intensity, bgstd) ==
    [f \in 1..Len(intensity) |->
        IF bgstd = None \/ bgstd = 0
        THEN Inf
        ELSE (100 * (IF intensity[f] < 0 THEN 0 - intensity[f] ELSE intensity[f])) \div bgstd]

\* np.sum(s.SNR > SNR)
count_above(snr, thr) == Cardinality({f \in 1..Len(snr) : snr[f] > 100 * thr})

RECURSIVE seqsum(_)
seqsum(a) == IF a = <<>> THEN 0 ELSE a[1] + seqsum(Tail(a))

\* np.mean(s.SNR)
mean(a) == IF \E f \in 1..Len(a) : a[f] = Inf THEN Inf ELSE seqsum(a) \div Len(a)

\* mutant: a spot with exactly the required share of frames is dropped
enough_frames_Strict(count, ratio, n) == 100 * count > ratio * n

\* line 1237: s.framecountSNR >= validframesratio*float(len(s.SNR))
enough_frames(count, ratio, n) == 100 * count >= ratio * n

\* lines 1226-1255: the loop over self.spots from position si on; bgstd is
\* the local variable of that name, acc what the loop has built so far
RECURSIVE valid_loop(_, _, _, _, _)
valid_loop(si, bgstd, acc, thr, ratio) ==
    IF si \notin DOMAIN acc.spots THEN acc
    ELSE LET s == acc.spots[si]
             b == IF s.use_borderbg THEN s.borderbgstd ELSE bgstd
             snr == frame_SNR(s.intensity, b)
             cnt == count_above(snr, thr)
             keep == enough_frames(cnt, ratio, Len(snr))
             s2 == [s EXCEPT !.SNR = snr, !.framecountSNR = cnt, !.meanSNR = mean(snr),
                             !.bgstd_used = b]
         IN  valid_loop(si + 1, b,
                 [spots |-> [acc.spots EXCEPT ![si] = s2],
                  validspots |-> IF keep THEN Append(acc.validspots, s.label)
                                 ELSE acc.validspots,
                  validspotindices |-> IF keep THEN Append(acc.validspotindices, si)
                                       ELSE acc.validspotindices,
                  images |-> [acc.images EXCEPT
                      !["meanSNR"] = StorePixels(@, spot_pixels(acc.spots, si), mean(snr)),
                      !["framecountSNR"] = StorePixels(@, spot_pixels(acc.spots, si), cnt)]],
                 thr, ratio)

\* lines 1261-1262: the coverage image gets the valid spots
RECURSIVE cover_valid(_, _, _)
cover_valid(img, sp, idx) ==
    IF idx = <<>> THEN img
    ELSE cover_valid(StorePixels(img, spot_pixels(sp, idx[1]), 1), sp, Tail(idx))

\* are_spots_valid, lines 1214-1262
are_spots_valid(sp, img, bgsample, thr, ratio) ==
    LET bgstd == IF bgsample # None THEN bgsample ELSE None
        r == valid_loop(0, bgstd,
                 [spots |-> sp, validspots |-> <<>>, validspotindices |-> <<>>,
                  images |-> img], thr, ratio)
    IN  [r EXCEPT !.images["spot_coverage"] = cover_valid(@, r.spots, r.validspotindices)]

\* the value a contrast function assigns to property prop of valid spot si
PropValue(si) == si + 1

\* the properties a spot has after a call of fun
AssignedBy(fun) ==
    CASE fun = "fits"    -> {}
      [] fun = "mods"    -> ModsFields
      [] fun = "ETruler" -> ETrulerFields
      [] fun = "ETmodel" -> ETmodelFields
      [] OTHER           -> {}

\* the store_property_in_image calls of one function over the valid spots,
\* in the order of the loop
RECURSIVE store_valid(_, _, _, _)
store_valid(img, sp, idx, props) ==
    IF idx = <<>> THEN img
    ELSE store_valid([p \in DOMAIN img |->
                         IF p \in props
                         THEN StorePixels(img[p], spot_pixels(sp, idx[1]), PropValue(idx[1]))
                         ELSE img[p]],
                     sp, Tail(idx), props)

VNewSpot(si, bb, inten, overlap) ==
    [label |-> Labels[si + 1], use_borderbg |-> bb, borderbgstd |-> IF bb THEN 2 ELSE None,
     intensity |-> inten, pixel |-> IF overlap THEN {si, si + 1} ELSE {si},
     SNR |-> <<>>, framecountSNR |-> None, meanSNR |-> None, bgstd_used |-> None]

ValidInit ==
    /\ DistIdle
    /\ IndexIdle
    /\ ContrastIdle
    /\ GridIdle
    /\ FitIdle
    /\ \E n \in 1..MaxVSpots, overlap \in BOOLEAN :
       \E bb \in [0..(n - 1) -> BOOLEAN], inten \in [0..(n - 1) -> IntensityPatterns] :
          /\ vspots = [si \in 0..(n - 1) |-> VNewSpot(si, bb[si], inten[si], overlap)]
          /\ vimages = [im \in VImages |-> [p \in 0..n |-> NaNPx]]
    /\ bg_spot_sample \in {None, 0, 1}
    /\ vSNR = 10
    /\ validframesratio \in {50, 70}
    /\ vvalidspots = <<>>
    /\ validspotindices = <<>>
    /\ vdone = {}
    /\ vpc = "init"

AreSpotsValid ==
    /\ vpc = "init"
    /\ LET r == are_spots_valid(vspots, vimages, bg_spot_sample, vSNR, validframesratio)
       IN  /\ vspots' = r.spots
           /\ vvalidspots' = r.validspots
           /\ validspotindices' = r.validspotindices
           /\ vimages' = r.images
    /\ vpc' = "valid"
    /\ UNCHANGED <<bg_spot_sample, vSNR, validframesratio, vdone>>
    /\ UNCHANGED <<distvars, indexvars, contrastvars, gridvars, fitvars>>

\* one of the four stage functions, called with myspots = all valid spots
StageCall(fun) ==
    /\ vpc = "valid"
    /\ fun \notin vdone
    /\ vdone' = vdone \cup {fun}
    /\ vimages' = store_valid(vimages, vspots, validspotindices, AssignedBy(fun))
    /\ UNCHANGED <<vspots, bg_spot_sample, vSNR, validframesratio, vvalidspots,
                   validspotindices, vpc>>
    /\ UNCHANGED <<distvars, indexvars, contrastvars, gridvars, fitvars>>

VFit == StageCall("fits")

VMods == StageCall("mods")

VETruler == StageCall("ETruler")

VETmodel == StageCall("ETmodel")

\* update_images, lines 238-250: every property a valid spot has
VUpdateImages ==
    /\ vpc = "valid"
    /\ "update_images" \notin vdone
    /\ vdone' = vdone \cup {"update_images"}
    /\ vimages' = store_valid(vimages, vspots, validspotindices,
                              UNION {AssignedBy(fun) : fun \in vdone})
    /\ UNCHANGED <<vspots, bg_spot_sample, vSNR, validframesratio, vvalidspots,
                   validspotindices, vpc>>
    /\ UNCHANGED <<distvars, indexvars, contrastvars, gridvars, fitvars>>

ValidNext ==
    \/ AreSpotsValid
    \/ VFit
    \/ VMods
    \/ VETruler
    \/ VETmodel
    \/ VUpdateImages

ValidSpec == ValidInit /\ [][ValidNext]_vars

\* ====================================================== fit stages
\* Direct calls of fit_all_portraits_spot_parallel_selective and
\* find_modulation_depths_and_phases_selective, with the batches they hand
\* to the cosine fitter written out column by column.  Of the four fit
\* parameters (phase, I0, M, resi) the model keeps phase and resi.
MaxFSpots == 2   \* most valid spots
MaxFitDim == 2   \* most portraits and most lines per portrait

\* Spot.retrieve_intensity(iportrait, iline): the data of one line of one
\* spot, told apart by spot, portrait and line
retrieve_intensity(si, pi, li) == <<100 * (si + 1) + 10 * pi + li>>

\* CosineFitter: one fit per column of y, each from its own column alone
cos_fitter(y) ==
    [phase |-> [k \in 1..Len(y) |-> seqsum(y[k])],
     resi  |-> [k \in 1..Len(y) |-> (seqsum(y[k]) % 7) + 1]]

\* Spot.retrieve_line_fit(pi, li, grid): the spot's line model of portrait
\* pi, line li, evaluated at every angle of the excitation grid
retrieve_line_fit(s, pi, li, nex) == [iex \in 1..nex |-> 10 * s.linefitparams[pi][li].phase + iex]

\* np.hstack of one [Nlines x Nex] array per spot of myspots: the columns
\* of the first spot, then those of the second, ...; a column is the
\* sequence of its Nlines entries
hstack(sp, bl, pi, d) ==
    [c \in 1..(Len(bl) * d.Nex) |->
        LET s == sp[bl[((c - 1) \div d.Nex) + 1]]
            iex == ((c - 1) % d.Nex) + 1
        IN  [li \in 1..d.Nlines |-> retrieve_line_fit(s, pi, li, d.Nex)[iex]]]

\* mutant: the fitted columns are dealt out to the spots in turn
hsplit_Strided(a, n) ==
    [k \in 1..n |-> [j \in 1..(Len(a) \div n) |-> a[(j - 1) * n + k]]]

\* np.hsplit(a, n) of a one-dimensional array: n consecutive sections of
\* equal length
hsplit(a, n) ==
    [k \in 1..n |-> [j \in 1..(Len(a) \div n) |-> a[(k - 1) * (Len(a) \div n) + j]]]

\* np.sum( linefitparams[:,:,3] )
RECURSIVE sum_resi(_, _, _)
sum_resi(lfp, d, k) ==
    IF k = 0 THEN 0
    ELSE lfp[((k - 1) \div d.Nlines) + 1][((k - 1) % d.Nlines) + 1].resi + sum_resi(lfp, d, k - 1)

\* mutant: the residuals of each portrait are added to what is there
gather_residual_Accumulate(s, d) ==
    [s EXCEPT !.residual = @ + sum_resi(s.linefitparams, d, d.Nportraits * d.Nlines)]

\* line 729
gather_residual(s, d) ==
    [s EXCEPT !.residual = sum_resi(s.linefitparams, d, d.Nportraits * d.Nlines)]

\* lines 685-725: the horizontal fits of portrait pi, from line li on;
\* write_line is the loop over enumerate(myspots) of lines 714-725, from
\* position sii on
RECURSIVE stage_A(_, _, _, _, _)
stage_A(sp, bl, pi, li, d) ==
    IF li > d.Nlines THEN sp
    ELSE LET intensities == [sii \in 1..Len(bl) |-> retrieve_intensity(bl[sii], pi, li)]
             fit == cos_fitter(intensities)
             RECURSIVE write_line(_, _)
             write_line(acc, sii) ==
                 IF sii > Len(bl) THEN acc
                 ELSE write_line([acc EXCEPT ![bl[sii]].linefitparams[pi][li] =
                                     [phase |-> fit.phase[sii], resi |-> fit.resi[sii]]],
                                 sii + 1)
         IN  stage_A(write_line(sp, 1), bl, pi, li + 1, d)

\* lines 744-767: the vertical fits of portrait pi; write_vertical is the
\* loop over enumerate(myspots) of lines 763-767, from position sii on
stage_B(sp, bl, pi, d) ==
    LET fitintensities == hstack(sp, bl, pi, d)
        fit == cos_fitter(fitintensities)
        phase == hsplit(fit.phase, Len(bl))
        resi == hsplit(fit.resi, Len(bl))
        RECURSIVE write_vertical(_, _)
        write_vertical(acc, sii) ==
            IF sii > Len(bl) THEN acc
            ELSE write_vertical([acc EXCEPT ![bl[sii]].verticalfitparams[pi] =
                                    [iex \in 1..Len(phase[sii]) |->
                                        [phase |-> phase[sii][iex], resi |-> resi[sii][iex]]]],
                                sii + 1)
    IN  write_vertical(sp, 1)

\* lines 679-767: the loop over the portraits, from portrait pi on;
\* gather_residuals is the loop over myspots of lines 728-729, from
\* position sii on
RECURSIVE portrait_loop(_, _, _, _)
portrait_loop(sp, bl, pi, d) ==
    IF pi > d.Nportraits THEN sp
    ELSE LET RECURSIVE gather_residuals(_, _)
             gather_residuals(acc, sii) ==
                 IF sii > Len(bl) THEN acc
                 ELSE gather_residuals([acc EXCEPT ![bl[sii]] = gather_residual(@, d)], sii + 1)
         IN  portrait_loop(stage_B(gather_residuals(stage_A(sp, bl, pi, 1, d), 1), bl, pi, d),
                           bl, pi + 1, d)

\* fit_all_portraits_spot_parallel_selective, lines 668-775;
\* zero_residuals is the loop over myspots of lines 675-676, from position
\* sii on
fit_selective(sp, bl, d) ==
    LET RECURSIVE zero_residuals(_, _)
        zero_residuals(acc, sii) ==
            IF sii > Len(bl) THEN acc
            ELSE zero_residuals([acc EXCEPT ![bl[sii]].residual = 0], sii + 1)
    IN  portrait_loop(zero_residuals(sp, 1), bl, 1, d)

\* Spot.recover_average_portrait_matrix: from the spot's own vertical fits
recover_average_portrait_matrix(s, d) ==
    LET RECURSIVE sum_vertical(_)
        sum_vertical(k) ==
            IF k = 0 THEN 0
            ELSE s.verticalfitparams[((k - 1) \div d.Nex) + 1][((k - 1) % d.Nex) + 1].phase
                 + sum_vertical(k - 1)
    IN  sum_vertical(d.Nportraits * d.Nex)

\* the properties of the modulation stage the model follows
FModsProps == {"M_ex", "phase_ex", "LS"}

\* mutant: every spot of the batch is given the fit of the first column
batch_entry_First(a, sii) == a[1]

\* lines 814-826: ph_ex[sii], M_ex[sii], ... of the batched fit
batch_entry(a, sii) == a[sii]

\* find_modulation_depths_and_phases_selective, lines 778-832: sam and its
\* projections per spot (recover_sams, the loop of lines 788-797), one
\* batched fit with a column per spot, then the assignment to the spots
\* and to their pixels (assign_mods, the loop of lines 813-832; mv holds
\* the spots and the images)
mods_selective(sp, img, bl, d) ==
    LET RECURSIVE recover_sams(_, _)
        recover_sams(acc, sii) ==
            IF sii > Len(bl) THEN acc
            ELSE recover_sams([acc EXCEPT ![bl[sii]].sam =
                                  recover_average_portrait_matrix(acc[bl[sii]], d)],
                              sii + 1)
        withsam == recover_sams(sp, 1)
        proj_ex == [sii \in 1..Len(bl) |-> <<withsam[bl[sii]].sam>>]
        fit == cos_fitter(proj_ex)
        RECURSIVE assign_mods(_, _)
        assign_mods(mv, sii) ==
            IF sii > Len(bl) THEN mv
            ELSE LET si == bl[sii]
                     v == batch_entry(fit.phase, sii)
                     s == [mv.spots[si] EXCEPT !.M_ex = v + Code("M_ex"),
                                               !.phase_ex = v + Code("phase_ex"),
                                               !.LS = v + Code("LS")]
                 IN  assign_mods([spots |-> [mv.spots EXCEPT ![si] = s],
                                  images |-> [mv.images EXCEPT ![si] =
                                                 [p \in FModsProps |-> s[p]]]],
                                 sii + 1)
    IN  assign_mods([spots |-> withsam, images |-> img], 1)

\* the blocks a call can be given: the indices of some valid spots, each
\* once, in any order
Blocks(N) ==
    {bl \in UNION {[1..m -> 0..(N - 1)] : m \in 1..N} :
        \A i, j \in 1..Len(bl) : i # j => bl[i] # bl[j]}

\* the portraits, the lines per portrait and the excitation grid angles of
\* the movie: as many lines as portraits, and a grid of one angle or of two
FitDims ==
    UNION {{[Nportraits |-> n, Nlines |-> n, Nex |-> nex] : nex \in {1, 2}} :
              n \in 1..MaxFitDim}

\* the fit has been run on spot s
Fitted(s) == s.linefitparams[1][1].phase > Stale

\* a valid spot before the calls: every field holds pr
FNewSpot(d, pr) ==
    [linefitparams |-> [pi \in 1..d.Nportraits |-> [li \in 1..d.Nlines |->
                            [phase |-> pr, resi |-> pr]]],
     verticalfitparams |-> [pi \in 1..d.Nportraits |-> [iex \in 1..d.Nex |->
                            [phase |-> pr, resi |-> pr]]],
     residual |-> pr, sam |-> pr, M_ex |-> pr, phase_ex |-> pr, LS |-> pr]

FitInit ==
    /\ DistIdle
    /\ IndexIdle
    /\ ContrastIdle
    /\ GridIdle
    /\ ValidIdle
    /\ fdims \in FitDims
    /\ \E N \in 1..MaxFSpots :
          \* the spots hold what an earlier run left in them
          /\ fspots = [si \in 0..(N - 1) |-> FNewSpot(fdims, Stale)]
          /\ fimages = [si \in 0..(N - 1) |-> [p \in FModsProps |-> NaNPx]]
    /\ fsolo = fspots
    /\ fcall = [fun |-> "none", myspots |-> <<>>]
    /\ fncols = 0

FitCall ==
    /\ \E bl \in Blocks(Cardinality(DOMAIN fspots)) :
          /\ fcall' = [fun |-> "fits", myspots |-> bl]
          /\ fspots' = fit_selective(fspots, bl, fdims)
          /\ fsolo' = [si \in DOMAIN fsolo |->
                          IF si \in Range(bl) THEN fit_selective(fsolo, <<si>>, fdims)[si]
                          ELSE fsolo[si]]
          /\ fncols' = Len(hstack(fspots, bl, 1, fdims))
    /\ UNCHANGED <<fdims, fimages>>
    /\ UNCHANGED <<distvars, indexvars, contrastvars, gridvars, validvars>>

\* (mp_worker, lines 36-37: mods can't run unless fits are present for
\* these spots)
ModsCall ==
    /\ \E bl \in Blocks(Cardinality(DOMAIN fspots)) :
          LET r == mods_selective(fspots, fimages, bl, fdims) IN
          /\ \A k \in 1..Len(bl) : Fitted(fspots[bl[k]])
          /\ fcall' = [fun |-> "mods", myspots |-> bl]
          /\ fspots' = r.spots
          /\ fimages' = r.images
          /\ fsolo' = [si \in DOMAIN fsolo |->
                          IF si \in Range(bl)
                          THEN mods_selective(fsolo, fimages, <<si>>, fdims).spots[si]
                          ELSE fsolo[si]]
    /\ UNCHANGED <<fdims, fncols>>
    /\ UNCHANGED <<distvars, indexvars, contrastvars, gridvars, validvars>>

FitNext ==
    \/ FitCall
    \/ ModsCall

FitSpec == FitInit /\ [][FitNext]_vars

\* ============================================================ claims
RunMP == mode = "run_mp"

Created == RunMP /\ blocks # <<>>

\* C1: for every Nprocs >= 1 and every number M >= 0 of valid spots, the
\* blocks run_mp hands to the workers partition 0..M-1: every index lies in
\* exactly one block at exactly one position, every block is a contiguous
\* ascending run, and the block sizes differ by at most 1.
C1_BlocksPartition ==
    Created =>
        /\ Len(blocks) = Nprocs
        /\ \A w \in Procs : \A k \in 1..Len(blocks[w]) : blocks[w][k] \in DOMAIN validspots
        /\ \A si \in DOMAIN validspots :
              \E w \in Procs : \E k \in 1..Len(blocks[w]) :
                 /\ blocks[w][k] = si
                 /\ \A v \in Procs : \A j \in 1..Len(blocks[v]) :
                       blocks[v][j] = si => (v = w /\ j = k)
        /\ \A w \in Procs : \A k \in 1..(Len(blocks[w]) - 1) : blocks[w][k + 1] = blocks[w][k] + 1
        /\ \A v, w \in Procs : Len(blocks[v]) - Len(blocks[w]) <= 1

C1_Witness ==
    /\ Created
    /\ Nprocs = 2
    /\ NSpots = 3
    /\ blocks = << <<0, 1>>, <<2>> >>
    /\ pc = "done"

\* the worker that owns spot si
Owner(si) == CHOOSE w \in Procs : si \in Range(blocks[w])

\* C2: when run_mp returns normally, every dispatched spot holds, for every
\* field of an enabled stage, exactly the value its owning worker computed
\* (the value on the worker's copy of the spot), and that field is populated.
C2_MergedFieldsAreWorkerValues ==
    (RunMP /\ pc = "done") =>
        \A w \in Procs : \A k \in 1..Len(blocks[w]) :
            \A f \in RecordFields(flags) :
                /\ validspots[blocks[w][k]][f] = wmovie[w].spots[blocks[w][k]][f]
                /\ validspots[blocks[w][k]][f] > Stale

C2_Witness ==
    /\ RunMP
    /\ pc = "done"
    /\ NSpots = 3
    /\ Nprocs = 2
    /\ \A st \in Stages : flags[st]
    /\ validspots[2]["ETmodel_resi"] = wmovie[2].spots[2]["ETmodel_resi"]
    /\ validspots[2]["ETmodel_resi"] # prior

\* a later stage is enabled only with its prerequisite
DependencyOrder ==
    /\ flags["mods"] => flags["fits"]
    /\ flags["ETruler"] => flags["mods"]
    /\ flags["ETmodel"] => flags["ETruler"]

\* C3: a flag combination that violates fits >= mods >= ETruler >= ETmodel
\* ends run_mp in the assertion error with no process created or started,
\* no queue, nothing put or got, and spots and images as before the call.
C3_BadFlagsFailFirst ==
    (RunMP /\ ~DependencyOrder) =>
        /\ pc \in {"run_mp", "error"}
        /\ pc = "error" => err = "AssertionError: flags"
        /\ \A w \in Procs : jobs[w] = "none"
        /\ blocks = <<>> /\ nstarted = 0
        /\ resultqueue = <<>> /\ nput = 0 /\ nget = 0
        /\ \A si \in DOMAIN validspots : validspots[si] = PreSpot
        /\ images = PreImage(NSpots)

C3_Witness ==
    /\ RunMP
    /\ flags["mods"] /\ ~flags["fits"]
    /\ pc = "error"
    /\ err = "AssertionError: flags"
    /\ NSpots = 2

\* C4: the merge is a barrier. The caller never gets more records than
\* spots were dispatched; once it is past the loop (join, assertion, image
\* update, done) it has got exactly one record per dispatched spot, none is
\* pending, and every spot holds its worker's fields; the images change only
\* after that.
C4_MergeIsBarrier ==
    RunMP =>
        /\ nget <= NSpots
        /\ pc \in {"join", "update", "done"} =>
              /\ nget = NSpots
              /\ myspots = <<>>
              /\ \A si \in DOMAIN validspots : \A f \in RecordFields(flags) :
                    validspots[si][f] = wmovie[Owner(si)].spots[si][f]
        /\ images # PreImage(NSpots) => (pc = "done" /\ myspots = <<>> /\ nget = NSpots)

C4_Witness ==
    /\ RunMP
    /\ pc = "join"
    /\ njoined = 0
    /\ NSpots = 3
    /\ nget = 3
    /\ \E w \in Procs : ~Ended(w)

\* C5: after all workers have been joined the result queue is empty, so the
\* assertion of line 231 never fails; as many records were put as were got,
\* one per spot.
C5_QueueEmptyAfterJoin ==
    RunMP =>
        /\ err # "AssertionError: queue"
        /\ (pc = "join" /\ njoined = Nprocs) =>
              /\ resultqueue = <<>>
              /\ nput = nget
              /\ nput = NSpots

C5_Witness ==
    /\ RunMP
    /\ pc = "join"
    /\ njoined = Nprocs
    /\ Nprocs = 2
    /\ \A w \in Procs : jobs[w] = "done"
    /\ nput = 3

\* what the enabled stages compute for spot si from its pre-run fields
RunStages(s, si, fl) ==
    LET s1 == IF fl["fits"] THEN FitSpot(s, si) ELSE s
        s2 == IF fl["mods"] THEN ModsSpot(s1) ELSE s1
        s3 == IF fl["ETruler"] THEN values_for_ETruler(s2) ELSE s2
    IN  IF fl["ETmodel"] THEN ETmodelSpot(s3) ELSE s3

\* the pre-run spot with the published fields of the enabled stages replaced
ExpectedMerged(si) ==
    [f \in Fields |-> IF f \in RecordFields(flags)
                      THEN RunStages(PreSpot, si, flags)[f] ELSE prior]

\* C6: the merged state does not depend on the order of arrival. In every
\* interleaving a spot of the caller is either untouched or holds exactly
\* the result of its own index (no record writes another spot), the records
\* in flight carry pairwise different, still expected indices and the keys
\* of the enabled stages, and at the end every spot holds its own result.
C6_MergeOrderIndependent ==
    RunMP =>
        /\ \A si \in DOMAIN validspots : validspots[si] \in {PreSpot, ExpectedMerged(si)}
        /\ pc = "done" => \A si \in DOMAIN validspots : validspots[si] = ExpectedMerged(si)
        /\ \A i, j \in 1..Len(resultqueue) :
              i # j => resultqueue[i].spot # resultqueue[j].spot
        /\ \A i \in 1..Len(resultqueue) :
              /\ DOMAIN resultqueue[i].vals = RecordFields(flags)
              /\ pc = "drain" => resultqueue[i].spot \in Range(myspots)

\* spot 2 is merged while spot 0, put by another worker, is still expected
C6_Witness ==
    /\ RunMP
    /\ pc = "drain"
    /\ NSpots = 3
    /\ flags["mods"]
    /\ validspots[2] = ExpectedMerged(2)
    /\ validspots[2] # PreSpot
    /\ validspots[0] = PreSpot
    /\ 0 \in Range(myspots)

\* C7: worker-side mutations are isolated until the merge. A spot of the
\* caller keeps its pre-run fields until its record is got; afterwards it
\* holds the fields of all enabled stages, never those of only some; the
\* caller's images are untouched until update_images; and on a worker's
\* copy every spot outside its own block still has its pre-run fields.
C7_IsolatedUntilMerge ==
    RunMP =>
        /\ pc \in {"run_mp", "split", "start"} =>
              \A si \in DOMAIN validspots : validspots[si] = PreSpot
        /\ \A si \in Range(myspots) : validspots[si] = PreSpot
        /\ \A si \in DOMAIN validspots :
              \/ validspots[si] = PreSpot
              \/ \A f \in RecordFields(flags) : validspots[si][f] > Stale
        /\ pc # "done" => images = PreImage(NSpots)
        /\ \A w \in Procs : \A si \in DOMAIN validspots :
              (blocks # <<>> /\ si \notin Range(blocks[w])) =>
                  /\ wmovie[w].spots[si] = PreSpot
                  /\ \A p \in allprops : wmovie[w].images[p][si] = NaNPx

\* spot 0 is merged, spot 2 is computed on its worker and not yet merged
C7_Witness ==
    /\ RunMP
    /\ pc = "drain"
    /\ Nprocs = 2
    /\ NSpots = 3
    /\ flags["ETruler"]
    /\ validspots[0] # PreSpot
    /\ 2 \in Range(myspots)
    /\ validspots[2] = PreSpot
    /\ wmovie[2].spots[2]["ET_ruler"] > Stale
    /\ wmovie[2].spots[0] = PreSpot

\* the list of line 213 exists
ListFormed ==
    \/ pc \in {"drain", "join", "update", "done"}
    \/ pc = "error" /\ err # "AssertionError: flags"

\* C8 (under FaultSpec): a merge-integrity violation is fatal. Once a record
\* was delivered twice or for an undispatched index, run_mp never reaches
\* the image update or 'all done'; a get that did not take an expected
\* index off the list ends the call in an error at once, and the call never
\* passes the assertion of line 231 with a record left in the queue.
C8_MergeIntegrityFatal ==
    RunMP =>
        /\ faults > 0 => pc \notin {"update", "done"}
        /\ (ListFormed /\ nget # NSpots - Len(myspots))
             => (pc = "error" /\ err \in {"ValueError", "IndexError"})
        /\ pc \in {"update", "done"} => resultqueue = <<>>

C8_Witness ==
    /\ RunMP
    /\ faults = 1
    /\ pc = "error"
    /\ err = "ValueError"
    /\ NSpots = 2
    /\ Len(myspots) = 1

\* a cosine-fit call raised Warning: in the calling process (chew_AM), or in
\* a worker (a worker that holds spots dies of nothing else)
FatalWarning ==
    \/ mode = "chew_AM" /\ err = "Warning"
    \/ RunMP /\ \E w \in Procs : jobs[w] = "crashed" /\ blocks[w] # <<>>

\* C9 (under FairSpec): a fatal numerical warning of a cosine-fit call aborts
\* the run, called directly or inside a worker of run_mp: the run then
\* stops in an error state, and it never finishes as if the fit had
\* succeeded.
C9_FatalWarningAbortsRun ==
    /\ [](FatalWarning => <>(pc = "error"))
    /\ [](FatalWarning => pc # "done")

\* C9, the part that holds: directly called, the warning ends the call in
\* an error at once; in a worker, run_mp at least never reports completion
\* (the caller waits for the dead worker's records for ever).
C9_NeverCompletesAfterWarning ==
    FatalWarning =>
        /\ pc \notin {"update", "done"}
        /\ mode = "chew_AM" => pc = "error"

\* every started worker has put the records of its whole block
AllPublished ==
    /\ RunMP
    /\ blocks # <<>>
    /\ nstarted = Nprocs
    /\ \A w \in Procs :
          \/ jobs[w] = "done"
          \/ jobs[w] = "put" /\ wk[w] > Len(blocks[w])
          \/ blocks[w] = <<>>

\* the caller is neither finished nor able to take a step
CoordinatorBlocked == pc \notin {"done", "error"} /\ ~ENABLED CoordinatorStep

\* C10 as stated (under FairSpec): once every worker has finished its
\* stages and published its records run_mp terminates, and the caller blocks
\* only on the queue receive.
C10_TerminatesBlockingOnlyOnGet ==
    /\ AllPublished ~> (pc = "done")
    /\ [](CoordinatorBlocked => pc = "drain")

\* C10 amended (under FairSpec): once every worker has published its records
\* run_mp terminates, for every Nprocs and number of spots; the caller blocks
\* only on the queue receive and on the join of a worker that has not ended
\* yet, and while it waits in a join no record is outstanding.
C10_Terminates ==
    /\ AllPublished ~> (pc = "done")
    /\ [](CoordinatorBlocked =>
            \/ pc = "drain" /\ resultqueue = <<>>
            \/ pc = "join" /\ nget = NSpots /\ njoined < Nprocs /\ ~Ended(njoined + 1))

\* more workers than spots: done, with a worker that had an empty block
C10_Witness ==
    /\ RunMP
    /\ pc = "done"
    /\ Nprocs = 2
    /\ NSpots = 1
    /\ blocks[2] = <<>>
    /\ flags["fits"]
    /\ jobs[2] = "crashed"

\* ------------------------------------------------ frame indexing claims
Nframes == Len(exangles)

FramesPerPortrait ==
    Cardinality({Round2(exangles[i]) : i \in 1..Len(exangles)})
      * Cardinality({Round2(emangles[i]) : i \in 1..Len(emangles)})

\* find_portraits has returned normally (and whatever ran after it)
PortraitsFound == ipc \in {"portraits", "lines"} \/ ierr = "AssertionError: emangle"

\* find_portraits has run, normally or not
PortraitsTried ==
    PortraitsFound \/ ierr \in {"AssertionError: Nframes", "AssertionError: Nportraits"}

\* C11 as stated: with frameoffset 0 and Nframes = k*fpp + r, k >= 1 and
\* 0 <= r < fpp, find_portraits raises no error and yields exactly k
\* portraits (a remainder r > 0 is dropped).
C11_RemainderDropped ==
    (PortraitsTried /\ frameoffset = 0 /\ Nframes >= FramesPerPortrait) =>
        /\ PortraitsFound
        /\ Nportraits = Nframes \div FramesPerPortrait

\* C11, amended: with frameoffset 0 and Nframes = k*fpp, k >= 1,
\* find_portraits yields exactly k portraits; with Nframes = k*fpp + r,
\* 0 < r < fpp, it fails its divisibility assertion and yields none.
C11_ExactMultipleOrAssertion ==
    (PortraitsTried /\ frameoffset = 0 /\ Nframes >= FramesPerPortrait) =>
        IF Nframes % FramesPerPortrait = 0
        THEN /\ PortraitsFound
             /\ Nportraits = Nframes \div FramesPerPortrait
             /\ Len(portrait_indices) = Nportraits + 1
        ELSE /\ ipc = "error"
             /\ ierr = "AssertionError: Nframes"
             /\ portrait_indices = <<>>

C11_Witness ==
    /\ ipc = "error"
    /\ ierr = "AssertionError: Nframes"
    /\ frameoffset = 0
    /\ Nframes > 2 * FramesPerPortrait

\* C12: after find_portraits(frameoffset) has succeeded, portrait_indices
\* has Nportraits+1 >= 2 entries, starts at frameoffset, steps by fpp, and
\* no entry exceeds Nframes: the ranges [p[pi], p[pi+1]) are disjoint,
\* contiguous, fpp frames long and inside the frame array.
C12_PortraitIndicesWellFormed ==
    PortraitsFound =>
        /\ Nportraits >= 1
        /\ Len(portrait_indices) = Nportraits + 1
        /\ portrait_indices[1] = frameoffset
        /\ \A p \in 1..Nportraits :
              /\ portrait_indices[p + 1] = portrait_indices[p] + FramesPerPortrait
              /\ portrait_indices[p] < portrait_indices[p + 1]
        /\ \A p \in 1..(Nportraits + 1) :
              portrait_indices[p] >= 0 /\ portrait_indices[p] <= Nframes

C12_Witness ==
    /\ ipc = "portraits"
    /\ frameoffset = 1
    /\ Nportraits = 1
    /\ Nframes = 2 * FramesPerPortrait

\* C13: whenever startstop yields at least one portrait, portrait 0 starts
\* at frame 0, also when the emission angle changes right after frame 0.
C13_FirstFrameInPortraitZero ==
    ipc = "startstop" =>
        /\ Nportraits >= 1
        /\ portrait_indices[1][1] = 0

C13_Witness ==
    /\ ipc = "startstop"
    /\ Nportraits >= 2
    /\ Round2(emangles[1]) # Round2(emangles[2])

\* find_lines has returned (and whatever ran after it)
LinesFound == ipc = "lines" \/ ierr = "AssertionError: emangle"

\* the frames of portrait pi (1-based), as positions of emangles
PortraitFrames(pi) == (portrait_indices[pi] + 1)..portrait_indices[pi + 1]

C15_LineAngleAssertionHolds ==
    /\ ierr # "AssertionError: emangle"
    /\ LinesFound =>
          \A pi \in 1..Nportraits : \A li \in 1..Nlines :
             \A j, k \in 1..Len(line_indices[pi][li]) :
                (line_indices[pi][li][j] /\ line_indices[pi][li][k]) =>
                   Round2(emangles[portrait_indices[pi] + j])
                     = Round2(emangles[portrait_indices[pi] + k])

\* the part of C15 that holds: the frames of a line agree after rounding
C15_LineSharesRoundedAngle ==
    LinesFound =>
        \A pi \in 1..Nportraits : \A li \in 1..Nlines :
           \A j, k \in 1..Len(line_indices[pi][li]) :
              (line_indices[pi][li][j] /\ line_indices[pi][li][k]) =>
                 Round2(emangles[portrait_indices[pi] + j])
                   = Round2(emangles[portrait_indices[pi] + k])

\* ------------------------------------------- contrast function claims
\* the spot of the last pass (1-based), once a pass has been made
Passed(fun) == cfun = fun /\ csi >= 1

\* C16 as stated: for fitted phases in [-pi/2, pi/2] the stored LS is
\* phase_ex - phase_em shifted by a multiple of pi into (-pi/2, pi/2]; it
\* is never exactly -pi/2.
C16_LSInHalfOpenInterval ==
    cfun = "LS" =>
        \A si \in 1..csi :
           LET LS == cspots[si]["LS"].num
               d == cspots[si]["phase_ex"].num - cspots[si]["phase_em"].num
           IN  /\ (LS - d) % Pi = 0
               /\ LS > 0 - HalfPi
               /\ LS <= HalfPi

\* what holds instead: the stored LS lies in the closed interval
C16_LSInClosedInterval ==
    cfun = "LS" =>
        \A si \in 1..csi :
           LET LS == cspots[si]["LS"].num
               d == cspots[si]["phase_ex"].num - cspots[si]["phase_em"].num
           IN  /\ (LS - d) % Pi = 0
               /\ LS >= 0 - HalfPi
               /\ LS <= HalfPi
               /\ cimages["LS"][si] = cspots[si]["LS"]

\* C17: in both anisotropy variants, a denominator Ipara + 2*Iperp of
\* exactly zero stores NaN and raises nothing; any other denominator
\* stores (Ipara - Iperp) / (Ipara + 2*Iperp).
C17_AnisotropyZeroDenominatorIsNaN ==
    (Passed("anisotropy") \/ Passed("anisotropy_n")) =>
        LET Ipara == loc["Ipara"].num
            Iperp == loc["Iperp"].num
            stored == cspots[csi][cfun]
        IN  /\ cerr = ""
            /\ cimages[cfun][csi] = stored
            /\ IF Ipara + 2 * Iperp = 0
               THEN isnan(stored)
               ELSE /\ IsNum(stored)
                    /\ stored.num * (Ipara + 2 * Iperp) = (Ipara - Iperp) * stored.den

C17_Witness ==
    /\ Passed("anisotropy_n")
    /\ loc["Ipara"].num = 2
    /\ loc["Iperp"].num = 0 - 1
    /\ isnan(cspots[csi]["anisotropy_n"])
    /\ cerr = ""

\* the ruler pass of the last spot ran to its end
RulerStored == Passed("ETruler") /\ cerr = ""

OutsideTolerance(peaksum) == Lt(peaksum, Q(92, 100)) \/ Gt(peaksum, Q(108, 100))

\* C18: when the observed peak powers of a spot sum to a value outside
\* [0.92, 1.08], the spot's ET_ruler and its ET_ruler_image pixels are NaN
\* after ETrulerFFT_selective has dealt with the spot.
C18_UnreliablePeaksGiveNaN ==
    (RulerStored /\ OutsideTolerance(loc["peaksum"])) =>
        /\ isnan(cspots[csi]["ET_ruler"])
        /\ isnan(cimages["ET_ruler"][csi])

InUnitInterval(x) == IsNum(x) /\ ~Lt(x, Q(0, 1)) /\ ~Gt(x, Q(1, 1))

\* C19 as stated: the ET_ruler stored on a spot lies in [0,1] whatever
\* the raw value 1 - crossdiff/MYcrossdiff is.
C19_RulerAlwaysInUnitInterval ==
    RulerStored => InUnitInterval(cspots[csi]["ET_ruler"])

\* C19, amended: the stored ET_ruler is the raw value clamped into [0,1]
\* whenever the raw value is a number, also when it lies outside
\* [-0.1, 1.1], which is only counted and logged; it is NaN when the raw
\* value is NaN.
C19_RulerClampedOrNaN ==
    /\ RulerStored =>
          LET raw == loc["ruler"]
              stored == cspots[csi]["ET_ruler"]
          IN  /\ cimages["ET_ruler"][csi] = stored
              /\ IF isnan(raw) THEN isnan(stored)
                 ELSE /\ InUnitInterval(stored)
                      /\ InUnitInterval(raw) => stored = raw
                      /\ Lt(raw, Q(0, 1)) => stored = Q(0, 1)
                      /\ Gt(raw, Q(1, 1)) => stored = Q(1, 1)
    /\ (Passed("ETruler") /\ cerr # "") => Gt(cspots[csi]["M_ex"], Q(1, 1))

C19_Witness ==
    /\ RulerStored
    /\ Gt(loc["ruler"], Q(11, 10))
    /\ cspots[csi]["ET_ruler"] = Q(1, 1)
    /\ cet >= 1

\* C20: in ETmodel_selective a spot whose M_ex is NaN gets its five
\* outputs set to NaN without a call of the optimizer, the loop goes on
\* to the next spot, and a spot with a defined M_ex is handed to the
\* optimizer once, with M_ex clipped into [1e-6, 1 - 1e-6].
C20_UndefinedMexSkipsOptimizer ==
    cfun = "ETmodel" =>
        /\ cerr = ""
        /\ csi < NCSpots => ENABLED ETmodelPass
        /\ \A si \in 1..csi :
              LET M_ex == cspots[si]["M_ex"]
                  calls == {c \in 1..Len(optcalls) : optcalls[c].spot = si}
              IN  IF isnan(M_ex)
                  THEN /\ calls = {}
                       /\ \A f \in ETmodelFields :
                             isnan(cspots[si][f]) /\ isnan(cimages[f][si])
                  ELSE /\ Cardinality(calls) = 1
                       /\ \A c \in calls :
                             LET mex == optcalls[c].mex
                             IN  /\ ~Lt(mex, Q(1, 1000000))
                                 /\ ~Gt(mex, Q(999999, 1000000))
                                 /\ (~Lt(M_ex, Q(1, 1000000)) /\ ~Gt(M_ex, Q(999999, 1000000)))
                                       => mex = M_ex
                       /\ \A f \in ETmodelFields :
                             IsNum(cspots[si][f]) /\ cimages[f][si] = cspots[si][f]

C20_Witness ==
    /\ cfun = "ETmodel"
    /\ csi = 2
    /\ isnan(cspots[1]["M_ex"])
    /\ Gt(cspots[2]["M_ex"], Q(1, 1))
    /\ Len(optcalls) = 1
    /\ optcalls[1].spot = 2

\* ------------------------------------------------------------- C21
\* some entry of the grid lies less than 10 machine epsilons from a
WithinTenEps(a, grid) ==
    \E k \in 1..Len(grid) : a - grid[k] < TenEps /\ grid[k] - a < TenEps

ObservedAnglesOnGrid ==
    /\ \A i \in 1..Len(obs_exangles) : WithinTenEps(obs_exangles[i], excitation_angles_grid)
    /\ \A i \in 1..Len(obs_emangles) : WithinTenEps(obs_emangles[i], emission_angles_grid)

\* Movie.__init__ has returned (a later failure of the resampling does not
\* undo the construction)
Constructed ==
    \/ gpc \in {"constructed", "resampled"}
    \/ gpc = "error" /\ gerr = "RuntimeWarning: divide by zero"

\* C21: Movie construction completes only if every unique observed
\* excitation angle and every unique observed emission angle lies within 10
\* machine epsilons of some entry of its angle grid; when some observed
\* angle has no such grid entry, construction fails with an assertion.
C21_ConstructionNeedsMatchingGrids ==
    gpc \notin {"idle", "init"} =>
        /\ Constructed => ObservedAnglesOnGrid
        /\ ~ObservedAnglesOnGrid =>
              /\ gpc = "error"
              /\ gerr \in {"AssertionError: excitation", "AssertionError: emission"}

C21_Witness ==
    /\ gpc = "error"
    /\ gerr = "AssertionError: emission"
    /\ \E i \in 1..Len(obs_emangles) : ~WithinTenEps(obs_emangles[i], emission_angles_grid)
    /\ \A i \in 1..Len(obs_exangles) : WithinTenEps(obs_exangles[i], excitation_angles_grid)

\* ------------------------------------------------------------- C22
Increasing(g) == \A k \in 1..(Len(g) - 1) : g[k] < g[k + 1]

\* increasing but for one step down, where the shifted angles pass pi and
\* start again near 0
IncreasingAroundPi(g) ==
    \/ Increasing(g)
    \/ \E d \in 1..(Len(g) - 1) :
          /\ g[d] > g[d + 1]
          /\ \A k \in 1..(Len(g) - 1) : k # d => g[k] < g[k + 1]
          /\ g[Len(g)] < g[1]

InZeroPi(g) == \A k \in 1..Len(g) : 0 <= g[k] /\ g[k] < GridPi

EvenSpacing(g) == \A k \in 1..Len(g) : g[k] = ((k - 1) * GridPi) \div Len(g)

\* g is the even spacing moved by off, taken around the half circle
EvenSpacingShifted(g, off) ==
    \A k \in 1..Len(g) :
        LET ideal == (((k - 1) * GridPi) \div Len(g) + off) % GridPi
            d == IF g[k] < ideal THEN ideal - g[k] ELSE g[k] - ideal
        IN  d < TenEps \/ GridPi - d < TenEps

GridsBuilt == gpc \notin {"idle", "init"}

\* C22 as stated: both grids are monotonically increasing, have as many
\* entries as there are unique observed angles, lie in [0, pi), and only
\* the excitation grid is shifted by the phase offset.
C22_BothGridsIncreasing ==
    GridsBuilt =>
        /\ Increasing(excitation_angles_grid)
        /\ Increasing(emission_angles_grid)
        /\ Len(excitation_angles_grid) = Len(obs_exangles)
        /\ Len(emission_angles_grid) = Len(obs_emangles)
        /\ InZeroPi(excitation_angles_grid)
        /\ InZeroPi(emission_angles_grid)
        /\ EvenSpacingShifted(excitation_angles_grid, phase_offset)
        /\ EvenSpacing(emission_angles_grid)

\* C22 (amended): the emission grid is monotonically increasing; the
\* excitation grid is increasing except for at most one step down, at the
\* place where the shifted angles wrap past pi; both grids have as many
\* entries as there are unique observed angles and lie in [0, pi), and only
\* the excitation grid is shifted by the phase offset.
C22_ExcitationGridIncreasingAroundPi ==
    GridsBuilt =>
        /\ IncreasingAroundPi(excitation_angles_grid)
        /\ Increasing(emission_angles_grid)
        /\ Len(excitation_angles_grid) = Len(obs_exangles)
        /\ Len(emission_angles_grid) = Len(obs_emangles)
        /\ InZeroPi(excitation_angles_grid)
        /\ InZeroPi(emission_angles_grid)
        /\ EvenSpacingShifted(excitation_angles_grid, phase_offset)
        /\ EvenSpacing(emission_angles_grid)

C22_Witness ==
    /\ gpc = "constructed"
    /\ phase_offset # 0
    /\ \E k \in 1..(Len(excitation_angles_grid) - 1) :
          excitation_angles_grid[k] > excitation_angles_grid[k + 1]

\* ------------------------------------------------------------- C28
\* the last angle of the grid repeats the first one, half a turn on
LastDuplicatesFirst(grid) == grid[Len(grid)] = GridPi

\* the number of grid points the wrap runs over: all of them, less the
\* final one when it repeats angle 0
WrapSize(grid) == IF LastDuplicatesFirst(grid) THEN Len(grid) - 1 ELSE Len(grid)

\* C28: the resampling indices are (n mod emission grid size, slope*n mod
\* excitation grid size) for n = 0..newdatalength-1, the final grid point
\* being left out of the wrap only when the grid's last angle duplicates
\* 0/pi; every index is within the bounds of the (possibly trimmed)
\* portrait matrix, and every non-redundant row and column is reached once
\* the signal is at least as long as the grid.
C28_IndicesWrapOverWholeGrid ==
    gpc = "resampled" =>
        /\ \A n \in 1..newdatalength :
              /\ ind_em[n] = (n - 1) % WrapSize(emission_angles_grid)
              /\ ind_ex[n] = (DefaultSlope * (n - 1)) % WrapSize(excitation_angles_grid)
              /\ ind_em[n] < sam_rows
              /\ ind_ex[n] < sam_cols
        /\ newdatalength >= Len(emission_angles_grid) =>
              \A r \in 0..(WrapSize(emission_angles_grid) - 1) :
                  \E n \in 1..newdatalength : ind_em[n] = r
        /\ newdatalength >= Len(excitation_angles_grid) =>
              \A c \in 0..(WrapSize(excitation_angles_grid) - 1) :
                  \E n \in 1..newdatalength : ind_ex[n] = c

\* ------------------------------------------------------------- C23
\* the frames of a spot whose SNR exceeds the threshold
FramesAbove(s) == Cardinality({f \in 1..Len(s.SNR) : s.SNR[f] > 100 * vSNR})

\* at least validframesratio times the frame count
EnoughFrames(s) == 100 * FramesAbove(s) >= validframesratio * Len(s.SNR)

\* C23: are_spots_valid puts a spot into validspots if and only if the
\* number of its frames whose SNR exceeds the threshold is at least
\* validframesratio times its frame count; validspots keeps the order of
\* spots, and validspotindices[k] is the index in spots of validspots[k].
C23_ValidIffEnoughFrames ==
    vpc = "valid" =>
        /\ \A si \in DOMAIN vspots :
              (\E k \in 1..Len(vvalidspots) : vvalidspots[k] = vspots[si].label)
                  <=> EnoughFrames(vspots[si])
        /\ Len(validspotindices) = Len(vvalidspots)
        /\ \A k \in 1..Len(vvalidspots) :
              /\ validspotindices[k] \in DOMAIN vspots
              /\ vspots[validspotindices[k]].label = vvalidspots[k]
        /\ \A j, k \in 1..Len(validspotindices) :
              j < k => validspotindices[j] < validspotindices[k]

C23_Witness ==
    /\ vpc = "valid"
    /\ \E si \in DOMAIN vspots : ~EnoughFrames(vspots[si])
    /\ \E k \in 1..Len(vvalidspots) :
          LET s == vspots[validspotindices[k]]
          IN  /\ validspotindices[k] # k - 1
              /\ 100 * FramesAbove(s) = validframesratio * Len(s.SNR)

\* ------------------------------------------------------------- C24
VDiscarded == {si \in DOMAIN vspots : \A k \in 1..Len(validspotindices) : validspotindices[k] # si}

\* the pixels of spot si that no valid spot covers
OwnPixels(si) ==
    {p \in vspots[si].pixel :
        \A k \in 1..Len(validspotindices) : p \notin vspots[validspotindices[k]].pixel}

LastCovering(p) ==
    CHOOSE j \in DOMAIN vspots :
        /\ p \in vspots[j].pixel
        /\ \A i \in DOMAIN vspots : i > j => p \notin vspots[i].pixel

OwnStd(s) == IF s.use_borderbg THEN s.borderbgstd ELSE bg_spot_sample

\* the frames above the threshold when the SNR is taken with std
FramesAboveWith(s, std) ==
    Cardinality({f \in 1..Len(s.intensity) :
        \/ std = None
        \/ std = 0
        \/ s.intensity[f] > vSNR * std})

\* C30: the background standard deviation used for a spot is its own
\* border-background std if it uses one and the movie's background-spot
\* std otherwise (infinite SNR when that is undefined or zero), whatever
\* spots precede it; its validity follows from that std alone.
C30_BgstdIndependentOfOrder ==
    vpc = "valid" =>
        \A si \in DOMAIN vspots :
            /\ vspots[si].bgstd_used = OwnStd(vspots[si])
            /\ (\E k \in 1..Len(validspotindices) : validspotindices[k] = si)
                  <=> 100 * FramesAboveWith(vspots[si], OwnStd(vspots[si]))
                         >= validframesratio * Len(vspots[si].intensity)

\* ------------------------------------------------------------- C25
\* how many of the four stages lie behind a worker in state j
StagesBehind(j) ==
    CASE j = "fits" -> 0 [] j = "mods" -> 1 [] j = "ETruler" -> 2 [] j = "ETmodel" -> 3
      [] OTHER -> 4

StageNumber(st) ==
    CASE st = "fits" -> 0 [] st = "mods" -> 1 [] st = "ETruler" -> 2 [] OTHER -> 3

\* worker w holds a computed value in every field of stage st for every
\* spot of its block
StageComplete(w, st) ==
    \A k \in 1..Len(blocks[w]) : \A f \in StageFields(st) :
        wmovie[w].spots[blocks[w][k]][f] > Stale

\* worker w has not touched a field of stage st
StageUntouched(w, st) ==
    \A k \in 1..Len(blocks[w]) : \A f \in StageFields(st) :
        wmovie[w].spots[blocks[w][k]][f] = prior

EnabledFields ==
    (IF flags["fits"] THEN {"linefitparams", "residual", "verticalfitparams"} ELSE {})
      \cup (IF flags["mods"] THEN {"M_ex", "M_em", "phase_ex", "phase_em", "LS",
                                   "anisotropy", "anisotropy_n"} ELSE {})
      \cup (IF flags["ETruler"] THEN {"ET_ruler"} ELSE {})
      \cup (IF flags["ETmodel"] THEN {"ETmodel_md_fu", "ETmodel_th_fu", "ETmodel_gr",
                                      "ETmodel_et", "ETmodel_resi"} ELSE {})

RECURSIVE PutUpTo(_)
PutUpTo(w) == IF w = 0 THEN 0 ELSE (wk[w] - 1) + PutUpTo(w - 1)

Working == {w \in Procs : jobs[w] \in {"fits", "mods", "ETruler", "ETmodel", "put", "done"}}

\* C25: a worker runs its enabled stages in the order fits, mods, ETruler,
\* ETmodel over its whole block and only afterwards publishes records: no
\* record is put before every enabled stage is complete for every spot of
\* the block, the worker puts one record per assigned spot (all of them by
\* the time it returns), and each record holds the spot index and exactly
\* the fields of the enabled stages.
C25_StagesThenOneRecordPerSpot ==
    /\ \A w \in Working : \A st \in Stages :
          flags[st] =>
              IF StagesBehind(jobs[w]) > StageNumber(st)
              THEN StageComplete(w, st)
              ELSE StageUntouched(w, st)
    /\ \A w \in Procs :
          /\ wk[w] > 1 => jobs[w] \in {"put", "done"}
          /\ jobs[w] \in {"put", "done"} => wk[w] <= Len(blocks[w]) + 1
          /\ jobs[w] = "done" => wk[w] = Len(blocks[w]) + 1
    /\ \A i \in 1..Len(resultqueue) :
          /\ DOMAIN resultqueue[i].vals = EnabledFields
          /\ \E w \in Procs : \E k \in 1..(wk[w] - 1) :
                /\ blocks[w][k] = resultqueue[i].spot
                /\ \A f \in EnabledFields :
                      resultqueue[i].vals[f] = wmovie[w].spots[blocks[w][k]][f]
          /\ \A j \in 1..Len(resultqueue) : j # i => resultqueue[j].spot # resultqueue[i].spot
    /\ Len(resultqueue) + nget = PutUpTo(Nprocs)

C25_Witness ==
    /\ \E w \in Procs :
          /\ jobs[w] = "done"
          /\ Len(blocks[w]) >= 2
    /\ flags = DefaultFlags
    /\ Len(resultqueue) >= 2

\* ------------------------------------------------------------- C26
FitReturned == fcall.fun = "fits"

\* the fit of the column that spot s's own line models of portrait pi give
\* at the excitation grid angle iex
RECURSIVE OwnColumn(_, _, _, _)
OwnColumn(s, pi, iex, li) ==
    IF li = 0 THEN 0
    ELSE (10 * s.linefitparams[pi][li].phase + iex) + OwnColumn(s, pi, iex, li - 1)

VerticalFitsAreOwn ==
    \A k \in 1..Len(fcall.myspots) :
        LET s == fspots[fcall.myspots[k]]
        IN  \A pi \in 1..fdims.Nportraits : \A iex \in 1..fdims.Nex :
                s.verticalfitparams[pi][iex].phase = OwnColumn(s, pi, iex, fdims.Nlines)

\* C26 as stated: stage B fits exactly one column per requested spot, and
\* the vertical-fit results stored for the spot at position k of myspots
\* are the fit of that spot's own stage-A line models.
C26_OneColumnPerSpot ==
    FitReturned =>
        /\ fncols = Len(fcall.myspots)
        /\ VerticalFitsAreOwn

\* C26 (amended): stage B fits exactly one column per requested spot and
\* excitation-grid angle (a block of grid-size columns per spot, the blocks
\* in the order of myspots), and the vertical-fit results stored for the
\* spot at position k of myspots, in any order of myspots, are the fit of
\* that spot's own stage-A line models.
C26_OneColumnPerSpotAndAngle ==
    FitReturned =>
        /\ fncols = Len(fcall.myspots) * fdims.Nex
        /\ VerticalFitsAreOwn

C26_Witness ==
    /\ FitReturned
    /\ fcall.myspots = <<1, 0>>
    /\ fdims.Nex >= 2
    /\ fdims.Nlines >= 2

\* ------------------------------------------------------------- C27
RECURSIVE LineResiduals(_, _)
LineResiduals(row, li) == IF li = 0 THEN 0 ELSE row[li].resi + LineResiduals(row, li - 1)

RECURSIVE AllResiduals(_, _)
AllResiduals(lfp, pi) ==
    IF pi = 0 THEN 0 ELSE LineResiduals(lfp[pi], Len(lfp[pi])) + AllResiduals(lfp, pi - 1)

\* C27: after the fit call returns, for every spot of myspots every entry
\* linefitparams[pi, li] holds the stage-A fit of that portrait and line of
\* that spot, and the spot's residual is the sum of linefitparams[pi, li, 3]
\* over all portraits and lines, whatever its residual was before.
C27_ResidualIsSumOverPortraitsAndLines ==
    FitReturned =>
        \A k \in 1..Len(fcall.myspots) :
            LET si == fcall.myspots[k]
                s == fspots[si]
            IN  /\ \A pi \in 1..fdims.Nportraits : \A li \in 1..fdims.Nlines :
                      /\ s.linefitparams[pi][li].phase = 100 * (si + 1) + 10 * pi + li
                      /\ s.linefitparams[pi][li].resi = ((100 * (si + 1) + 10 * pi + li) % 7) + 1
                /\ s.residual = AllResiduals(s.linefitparams, fdims.Nportraits)

C27_Witness ==
    /\ FitReturned
    /\ fdims.Nportraits >= 2
    /\ fdims.Nlines >= 2
    /\ \E si \in DOMAIN fspots :
          /\ \A k \in 1..Len(fcall.myspots) : fcall.myspots[k] # si
          /\ fspots[si].residual = Stale

\* ------------------------------------------------------------- C29
\* the valid spots that are not in the myspots of the call being made
NotCalled == {si \in DOMAIN fspots : \A k \in 1..Len(fcall'.myspots) : fcall'.myspots[k] # si}

\* the step leaves everything but the spots of its myspots and their
\* pixels as it was, and leaves every spot with what a call on that spot
\* alone gives it
CallTouchesOnlyItsSpots ==
    /\ \A si \in NotCalled :
          /\ fspots'[si] = fspots[si]
          /\ fimages'[si] = fimages[si]
    /\ fcall'.fun = "fits" => fimages' = fimages
    /\ fdims' = fdims
    /\ fspots' = fsolo'

\* C29: a fit or modulation call changes only the spots of myspots and the
\* image pixels of those spots; the other valid spots, the portrait and
\* line counts and the grid are as they were; and every spot holds what a
\* call on that spot alone gives it, so that calls on disjoint blocks give
\* each spot the same result as one call on their union.
C29_CallsTouchOnlyTheirSpots == [][CallTouchesOnlyItsSpots]_vars

C29_Witness ==
    /\ fcall.fun = "mods"
    /\ Len(fcall.myspots) = 1
    /\ \E si \in DOMAIN fspots :
          /\ fcall.myspots[1] # si
          /\ Fitted(fspots[si])
          /\ fimages[si]["M_ex"] = NaNPx
    /\ fimages[fcall.myspots[1]]["M_ex"] # NaNPx
====
